---- MODULE Spec2Model ----
(***************************************************************************)
(* IndexTracker: the NSE proxy serverless functions.                       *)
(*                                                                         *)
(* One invocation of a handler is modelled as a state machine.  The        *)
(* repository holds three batch handlers and two single-symbol proxies,    *)
(* told apart by `variant`:                                                *)
(*   "batch"    src/unnamed/part_000 line 4   (MAX_CONCURRENT 8, deadline) *)
(*   "retry"    src/unnamed/part_000 line 441 (getSessionCookies, 4)       *)
(*   "enhanced" src/unnamed/part_000 line 727 (MAX_CONCURRENT 3, deadline) *)
(*   "single"   src/api/nse-proxy.js line 4   (session, then one request)  *)
(*   "direct"   src/api/nse-proxy.js line 270 (one request, no session)    *)
(*                                                                         *)
(* A JavaScript string is a sequence of tokens (a word, a blank, a comma): *)
(* the string "RELIANCE, TCS" is <<"RELIANCE", ",", " ", "TCS">>.  A       *)
(* JavaScript value is a record tagged with its type.                      *)
(***************************************************************************)
EXTENDS Integers, Sequences, FiniteSets, TLC

VARIABLES
    variant,      \* which handler runs
    req,          \* the inbound request (method, query, body)
    env,          \* what the upstream may do in this run
    pc,           \* position of the handler
    symbols,      \* the handler's `symbols`
    endpoint,     \* the handler's `endpoint`
    nav,          \* position inside session establishment
    navRequest,   \* the navigation request sent last (step, Cookie header)
    navResponse,  \* the navigation response received last (request, step, status,
                  \* set-cookie header)
    attempt,      \* getSessionCookies: `attempt`
    lastError,    \* getSessionCookies: `lastError`
    mainCookies,  \* set-cookie value of the main page, kept for the next step
    sessionCookies, \* the session cookie string handed to the data fetches
    idx,          \* the batch loop's `i`
    ist,          \* per requested entry: position of its fetch
    out,          \* per requested entry: what its promise settled with
    wire,         \* per requested entry: what the upstream did to its request
    results,      \* the handler's `results`
    now,          \* Date.now()
    startTime,    \* the handler's `startTime`
    res,          \* the response sent (status, body, Cache-Control, CORS headers)
    sent,         \* how many responses were sent
    calls,        \* outbound requests issued and still open, timers left armed
    trace,        \* what the batch loop did at each window boundary
    peer          \* another invocation under way in the same process, suspended
                  \* at an await (Nobody when the invocation runs alone)

vars == <<variant, req, env, pc, symbols, endpoint, nav, navRequest, navResponse,
          attempt, lastError,
          mainCookies, sessionCookies, idx, ist, out, wire, results, now,
          startTime, res, sent, calls, trace, peer>>

----------------------------------------------------------------------------
(* Bounds of the model. *)

\* the clock stops advancing once it has reached this many milliseconds
MaxClock == 75000
\* the clock advances in steps of this many milliseconds
ClockStep == 25000
\* a `symbols` query value has at most this many tokens
MaxParamLen == 3
\* the longest batch has this many symbols
WideCount == 9

----------------------------------------------------------------------------
(* JavaScript values and strings. *)

Undefined == [t |-> "undefined"]
Null == [t |-> "null"]
JStr(s) == [t |-> "string", v |-> s]
JArr(a) == [t |-> "array", v |-> a]

\* the truthiness test of `if (x)`, `x || y`, `!x`
Truthy(x) ==
    CASE x.t \in {"undefined", "null"} -> FALSE
      [] x.t = "string"    -> x.v # <<>>
      [] OTHER             -> TRUE

Whitespace == {" "}

RECURSIVE TrimStart(_)
TrimStart(s) ==
    IF s # <<>> /\ Head(s) \in Whitespace THEN TrimStart(Tail(s)) ELSE s

RECURSIVE TrimEnd(_)
TrimEnd(s) ==
    IF s # <<>> /\ s[Len(s)] \in Whitespace
    THEN TrimEnd(SubSeq(s, 1, Len(s) - 1))
    ELSE s

\* String.prototype.trim
Trim(s) == TrimEnd(TrimStart(s))

\* String.prototype.split(sep): the pieces between the separators, in order;
\* the empty string splits into one empty piece
RECURSIVE SplitFrom(_, _, _)
SplitFrom(s, sep, piece) ==
    IF s = <<>> THEN <<piece>>
    ELSE IF Head(s) = sep THEN <<piece>> \o SplitFrom(Tail(s), sep, <<>>)
    ELSE SplitFrom(Tail(s), sep, Append(piece, Head(s)))

Split(s, sep) == SplitFrom(s, sep, <<>>)

\* a filter that removes nothing
KeepAll(a) == a

\* Array.prototype.filter(Boolean) on an array of strings
RECURSIVE FilterNonEmpty(_)
FilterNonEmpty(a) ==
    IF a = <<>> THEN <<>>
    ELSE IF Head(a) = <<>> THEN FilterNonEmpty(Tail(a))
    ELSE <<Head(a)>> \o FilterNonEmpty(Tail(a))

MapTrim(a) == [k \in DOMAIN a |-> Trim(a[k])]

Min(a, b) == IF a < b THEN a ELSE b

\* Array.prototype.join(sep) on an array of strings
RECURSIVE Join(_, _)
Join(a, sep) ==
    IF a = <<>> THEN <<>>
    ELSE IF Len(a) = 1 THEN a[1]
    ELSE a[1] \o sep \o Join(Tail(a), sep)

----------------------------------------------------------------------------
(* Configuration of the handler with retrying session. *)

Quote == <<"quote">>

\* the endpoint kinds configured in ENDPOINT_CONFIG
ENDPOINT_CONFIG ==
    (<<"quote">> :> [path |-> "/api/quote-equity", param |-> "symbol"]) @@
    (<<"option-chain">> :> [path |-> "/api/option-chain-indices", param |-> "symbol"]) @@
    (<<"chart">> :> [path |-> "/api/chart-databyindex", param |-> "index"])

\* property names every object literal inherits from Object.prototype
ObjectPrototypeKeys ==
    {<<"constructor">>, <<"toString">>, <<"valueOf">>, <<"hasOwnProperty">>,
     <<"__proto__">>}

\* ENDPOINT_CONFIG[endpoint]: an own entry, an inherited member, or undefined
ConfigLookup(e) ==
    IF e.t = "string" /\ e.v \in DOMAIN ENDPOINT_CONFIG
    THEN [t |-> "config", path |-> ENDPOINT_CONFIG[e.v].path,
          param |-> ENDPOINT_CONFIG[e.v].param]
    ELSE IF e.t = "string" /\ e.v \in ObjectPrototypeKeys
    THEN [t |-> "inherited"]
    ELSE Undefined

\* Object.keys(ENDPOINT_CONFIG)
ConfigKeys == <<Quote, <<"option-chain">>, <<"chart">> >>

----------------------------------------------------------------------------
(* The synchronous start of a handler: method, parameters, validation.     *)
(* The result is a response to send, an exception, or the parameters.      *)

Respond(status, body) == [kind |-> "respond", status |-> status, body |-> body]
Throw(msg) == [kind |-> "throw", message |-> msg]
Proceed(syms, ep) == [kind |-> "proceed", symbols |-> syms, endpoint |-> ep]

\* `symbols.length`
Length(x) == IF x.t \in {"string", "array"} THEN Len(x.v) ELSE 0

\* parameter extraction of the handlers with a deadline
ExtractDeadline(r) ==
    IF r.method = "GET"
    THEN LET ep == IF r.query.endpoint.t = "undefined" THEN JStr(Quote)
                   ELSE r.query.endpoint
         IN  IF Truthy(r.query.symbols)
             THEN IF r.query.symbols.t = "string"
                  THEN Proceed(JArr(FilterNonEmpty(MapTrim(Split(r.query.symbols.v, ",")))), ep)
                  ELSE Throw("symbolsParam.split is not a function")
             ELSE IF Truthy(r.query.symbol)
             THEN Proceed(JArr(<<r.query.symbol.v>>), ep)
             ELSE Proceed(JArr(<<>>), ep)
    ELSE IF r.body.t = "undefined"
         THEN Throw("Cannot read properties of undefined")
         ELSE Proceed(IF Truthy(r.body.symbols) THEN r.body.symbols ELSE JArr(<<>>),
                      IF Truthy(r.body.endpoint) THEN r.body.endpoint ELSE JStr(Quote))

UsageDeadline ==
    [kind |-> "usage", error |-> "Symbols parameter is required", endpoints |-> <<>>]

\* lines 4-54 and 727-775: everything before the session is established
PrologueDeadline(r) ==
    IF r.method = "OPTIONS" THEN Respond(200, [kind |-> "empty"])
    ELSE IF r.method \notin {"GET", "POST"}
    THEN Respond(405, [kind |-> "error", error |-> "Method not allowed"])
    ELSE LET x == ExtractDeadline(r)
         IN  IF x.kind = "throw" THEN x
             ELSE IF Length(x.symbols) = 0 THEN Respond(400, UsageDeadline)
             ELSE IF x.symbols.t # "array" THEN Throw("symbols.join is not a function")
             ELSE x

\* parameter extraction of the handler with retrying session
ExtractRetry(r) ==
    IF r.method = "GET"
    THEN LET ep == IF Truthy(r.query.endpoint) THEN r.query.endpoint ELSE JStr(Quote)
         IN  IF Truthy(r.query.symbols)
             THEN IF r.query.symbols.t = "string"
                  THEN Proceed(JArr(FilterNonEmpty(MapTrim(Split(r.query.symbols.v, ",")))), ep)
                  ELSE Throw("symbolsParam.split is not a function")
             ELSE IF Truthy(r.query.symbol)
             THEN Proceed(JArr(<<Trim(r.query.symbol.v)>>), ep)
             ELSE Proceed(JArr(<<>>), ep)
    ELSE IF r.body.t = "undefined"
         THEN Throw("Cannot read properties of undefined")
         ELSE Proceed(IF Truthy(r.body.symbols) THEN r.body.symbols ELSE JArr(<<>>),
                      IF Truthy(r.body.endpoint) THEN r.body.endpoint ELSE JStr(Quote))

UsageRetry ==
    [kind |-> "usage", error |-> "Missing or invalid parameters.", endpoints |-> ConfigKeys]

\* a prologue that does not look at the endpoint
PrologueRetryAnyEndpoint(r) ==
    IF r.method = "OPTIONS" THEN Respond(204, [kind |-> "empty"])
    ELSE IF r.method \notin {"GET", "POST"}
    THEN Respond(405, [kind |-> "error", error |-> "Method Not Allowed"])
    ELSE LET x == ExtractRetry(r)
         IN  IF x.kind = "throw" THEN x
             ELSE IF Length(x.symbols) = 0 THEN Respond(400, UsageRetry)
             ELSE x

\* lines 441-477: everything before getSessionCookies is called
PrologueRetry(r) ==
    IF r.method = "OPTIONS" THEN Respond(204, [kind |-> "empty"])
    ELSE IF r.method \notin {"GET", "POST"}
    THEN Respond(405, [kind |-> "error", error |-> "Method Not Allowed"])
    ELSE LET x == ExtractRetry(r)
         IN  IF x.kind = "throw" THEN x
             ELSE IF Length(x.symbols) = 0 \/ ~Truthy(ConfigLookup(x.endpoint))
             THEN Respond(400, UsageRetry)
             ELSE x

\* the keys of nseEndpoints, nse-proxy.js lines 32-37
SingleKeys == << Quote, <<"indices">>, <<"preopen">>, <<"marketstatus">> >>

\* nseEndpoints[endpoint]: an own entry, an inherited member, or undefined
SingleLookup(e) ==
    IF e.t = "string" /\ e.v \in {SingleKeys[j] : j \in DOMAIN SingleKeys}
    THEN [t |-> "url", kind |-> e.v]
    ELSE IF e.t = "string" /\ e.v \in ObjectPrototypeKeys
    THEN [t |-> "inherited"]
    ELSE Undefined

UsageSingle ==
    [kind |-> "usage", error |-> "Symbol parameter is required", endpoints |-> <<>>]

InvalidEndpointSingle ==
    [kind |-> "usage", error |-> "Invalid endpoint", endpoints |-> SingleKeys]

\* a prologue that lets every method but OPTIONS through
PrologueSingleAnyMethod(r) ==
    IF r.method = "OPTIONS" THEN Respond(200, [kind |-> "empty"])
    ELSE IF ~Truthy(r.query.symbol) THEN Respond(400, UsageSingle)
    ELSE Proceed(r.query.symbol, JStr(Quote))

\* a prologue that wants `symbol` for the quote endpoint only
PrologueSingleSymbolForQuote(r) ==
    IF r.method = "OPTIONS" THEN Respond(200, [kind |-> "empty"])
    ELSE IF r.method # "GET"
    THEN Respond(405, [kind |-> "error", error |-> "Method not allowed"])
    ELSE LET ep == IF r.query.endpoint.t = "undefined" THEN JStr(Quote)
                   ELSE r.query.endpoint
         IN  IF ~Truthy(r.query.symbol) /\ ep = JStr(Quote) THEN Respond(400, UsageSingle)
             ELSE IF ~Truthy(SingleLookup(ep)) THEN Respond(400, InvalidEndpointSingle)
             ELSE Proceed(r.query.symbol, ep)

\* nse-proxy.js lines 4-46 and 270-312: everything before the first request
PrologueSingle(r) ==
    IF r.method = "OPTIONS" THEN Respond(200, [kind |-> "empty"])
    ELSE IF r.method # "GET"
    THEN Respond(405, [kind |-> "error", error |-> "Method not allowed"])
    ELSE LET ep == IF r.query.endpoint.t = "undefined" THEN JStr(Quote)
                   ELSE r.query.endpoint
         IN  IF ~Truthy(r.query.symbol) THEN Respond(400, UsageSingle)
             ELSE IF ~Truthy(SingleLookup(ep)) THEN Respond(400, InvalidEndpointSingle)
             ELSE Proceed(r.query.symbol, ep)

BatchVariants == {"batch", "retry", "enhanced"}
SingleVariants == {"single", "direct"}

Prologue(v, r) ==
    CASE v = "retry"           -> PrologueRetry(r)
      [] v \in SingleVariants -> PrologueSingle(r)
      [] OTHER                 -> PrologueDeadline(r)

----------------------------------------------------------------------------
(* Session cookies. *)

MAX_ATTEMPTS == 3

\* Map.prototype.set on a map kept as a list of <<name, value>> in insertion
\* order: an existing name keeps its place and takes the new value
MapSet(m, k, v) ==
    IF \E j \in DOMAIN m : m[j][1] = k
    THEN [j \in DOMAIN m |-> IF m[j][1] = k THEN <<k, v>> ELSE m[j]]
    ELSE Append(m, <<k, v>>)

\* Array.from(cookieMap.entries()).map(([k, v]) => `${k}=${v}`).join('; ')
MapToCookieString(m) ==
    Join([j \in DOMAIN m |-> m[j][1] \o <<"=">> \o m[j][2]], <<";", " ">>)

\* `x || ''` for a header value
OrEmpty(h) == IF Truthy(h) THEN h.v ELSE <<>>

\* getSessionCookies, lines 363-375: merge the two set-cookie values
RECURSIVE MergeRetry(_, _)
MergeRetry(pieces, m) ==
    IF pieces = <<>> THEN m
    ELSE LET parts == Trim(Split(Head(pieces), ";")[1])
             nv    == Split(parts, "=")
         IN  IF parts # <<>> /\ nv[1] # <<>> /\ Len(nv) > 1
             THEN MergeRetry(Tail(pieces), MapSet(m, nv[1], Join(Tail(nv), <<"=">>)))
             ELSE MergeRetry(Tail(pieces), m)

FinalCookiesRetry(main, marketHdr) ==
    LET allCookiesRaw == Join(<<main, OrEmpty(marketHdr)>>, <<",", " ">>)
    IN  MapToCookieString(MergeRetry(Split(allCookiesRaw, ","), <<>>))

\* enhanced handler: header.split(',').map(c => c.trim().split(';')[0]).join('; ')
FirstParts(h) ==
    LET pieces == Split(h, ",")
    IN  Join([j \in DOMAIN pieces |-> Split(Trim(pieces[j]), ";")[1]], <<";", " ">>)

\* enhanced handler, lines 897-908: remove duplicates and empty values
RECURSIVE CleanupFrom(_, _)
CleanupFrom(pieces, m) ==
    IF pieces = <<>> THEN m
    ELSE LET nv == Split(Trim(Head(pieces)), "=")
         IN  IF nv[1] # <<>> /\ Len(nv) > 1 /\ nv[2] # <<>>
             THEN CleanupFrom(Tail(pieces), MapSet(m, Trim(nv[1]), Trim(nv[2])))
             ELSE CleanupFrom(Tail(pieces), m)

CleanupEnhanced(c) ==
    IF c = <<>> THEN c
    ELSE MapToCookieString(CleanupFrom(Split(c, ";"), <<>>))

----------------------------------------------------------------------------
(* The single-item fetcher: fetchSingleSymbol (lines 96-152, 911-985) and  *)
(* fetchNseData (lines 399-437).                                           *)

MAX_CONCURRENT_BATCH == 8
MAX_CONCURRENT_RETRY == 4
MAX_CONCURRENT_ENHANCED == 3
MAX_PROCESSING_TIME_BATCH == 45000
MAX_PROCESSING_TIME_ENHANCED == 50000
DETAILS_MAX == 200
TIMEOUT_BATCH == 12000
TIMEOUT_ENHANCED == 15000

MaxConcurrent(v) ==
    CASE v = "batch"    -> MAX_CONCURRENT_BATCH
      [] v = "retry"    -> MAX_CONCURRENT_RETRY
      [] v = "enhanced" -> MAX_CONCURRENT_ENHANCED

MaxProcessingTime(v) ==
    IF v = "batch" THEN MAX_PROCESSING_TIME_BATCH ELSE MAX_PROCESSING_TIME_ENHANCED

\* a lone surrogate, as JSON.parse yields it for "\ud800"
LoneSurrogate == "\\ud800"

\* encodeURIComponent throws URIError on a lone surrogate
EncodeThrows(s) == \E j \in DOMAIN s : s[j] = LoneSurrogate

\* encodeURIComponent on the tokens of a symbol
EncodeURIComponent(s) ==
    [j \in DOMAIN s |-> CASE s[j] = " " -> "%20"
                          [] s[j] = "," -> "%2C"
                          [] OTHER      -> s[j]]

\* the URL a data request goes to
TargetUrl(v, sym, ep) ==
    IF v = "retry"
    THEN LET config == ConfigLookup(ep)
         IN  IF config.t = "config"
             THEN [path |-> config.path, param |-> config.param,
                   value |-> EncodeURIComponent(sym)]
             ELSE [path |-> "undefined", param |-> "undefined",
                   value |-> EncodeURIComponent(sym)]
    ELSE [path |-> "/api/quote-equity", param |-> "symbol", value |-> sym]

\* what the upstream sends as the text of a body
BodyText(body) ==
    CASE body = "json" -> <<"{", "}">>
      [] body = "html" -> <<"<", "h", "t", "m", "l", ">">>
      [] OTHER         -> <<"d", "e", "n", "i", "e", "d">>

\* errorText.substring(0, 200)
Substring(t, n) == SubSeq(t, 1, Min(Len(t), n))

Success(sym, data) ==
    [symbol |-> sym, success |-> TRUE, data |-> data,
     error |-> Undefined, details |-> Undefined]
Failure(sym, error, details) ==
    [symbol |-> sym, success |-> FALSE, data |-> Undefined,
     error |-> error, details |-> details]

Return(x) == [settle |-> "resolved", value |-> x]
Raise(msg) == [settle |-> "rejected", value |-> msg]

\* the message of the error a pending request ends with
FaultMessage(v, fault) ==
    CASE fault = "neterr" -> "fetch failed"
      [] fault = "timeout" /\ v = "batch" ->
            "Request timeout after " \o ToString(TIMEOUT_BATCH) \o "ms"
      [] fault = "timeout" /\ v = "enhanced" ->
            "Request timeout after " \o ToString(TIMEOUT_ENHANCED) \o "ms"
      [] OTHER -> "This operation was aborted"

IsOk(status) == status >= 200 /\ status <= 299

\* response.statusText
StatusText(status) ==
    CASE status = 200 -> "OK"
      [] status = 401 -> "Unauthorized"
      [] status = 403 -> "Forbidden"
      [] status = 503 -> "Service Unavailable"
      [] OTHER        -> ""

\* a fetcher that takes a 2xx answer it cannot parse for an empty success
TryFetchLenient(v, sym, ep, ev) ==
    IF ev.kind = "fault" THEN Raise(FaultMessage(v, ev.fault))
    ELSE IF ev.body = "reset" THEN Raise("terminated")
    ELSE IF ~IsOk(ev.status)
    THEN Return(Failure(sym, "HTTP Error: " \o ToString(ev.status), Undefined))
    ELSE IF ev.body # "json" THEN Return(Success(sym, Undefined))
    ELSE Return(Success(sym, [doc |-> TargetUrl(v, sym, ep)]))

\* the body of the fetcher's try block, for an upstream event ev:
\*   [kind |-> "response", status, body] or [kind |-> "fault", fault]
\* where a body "reset" fails while it is read and "json" alone parses
TryFetch(v, sym, ep, ev) ==
    IF ev.kind = "fault" THEN Raise(FaultMessage(v, ev.fault))
    ELSE IF ev.body = "reset" THEN Raise("terminated")
    ELSE IF ~IsOk(ev.status)
    THEN Return(Failure(sym,
            IF v = "retry"
            THEN "HTTP Error: " \o ToString(ev.status)
            ELSE "HTTP " \o ToString(ev.status) \o ": " \o StatusText(ev.status),
            IF v = "enhanced" /\ ev.body = "html"
            THEN JStr(<<"NSE returned HTML error page">>)
            ELSE JStr(Substring(BodyText(ev.body), DETAILS_MAX))))
    ELSE IF ev.body # "json" THEN Raise("Unexpected token in JSON")
    ELSE Return(Success(sym, [doc |-> TargetUrl(v, sym, ep)]))

\* the fetcher as a whole: what its promise settles with
FetchOutcome(v, sym, ep, ev) ==
    LET r == TryFetch(v, sym, ep, ev)
    IN  IF r.settle = "rejected"
        THEN Return(Failure(sym, r.value, Undefined))
        ELSE r

\* fetchNseData, lines 400-406, the part before its try block: it returns
\* for an unknown endpoint, throws when the symbol cannot be encoded, and
\* otherwise goes on to send the request
BeforeTry(sym, ep) ==
    IF ~Truthy(ConfigLookup(ep))
    THEN Return(Failure(sym, "Invalid endpoint", Undefined))
    ELSE IF EncodeThrows(sym) THEN Raise("URI malformed")
    ELSE [settle |-> "pending", value |-> Undefined]

----------------------------------------------------------------------------
(* The response compiler. *)

ProtoKey == <<"__proto__">>

\* obj[key] = value on an object literal: assigning to __proto__ sets the
\* prototype and creates no own property
ObjSet(o, k, val) ==
    IF k = ProtoKey THEN o
    ELSE [x \in (DOMAIN o) \cup {k} |-> IF x = k THEN val ELSE o[x]]

EmptyObj == [x \in {} |-> Undefined]

SelectSeq2(list, keep) ==
    LET F[n \in 0..Len(list)] ==
            IF n = 0 THEN <<>>
            ELSE IF list[n].success = keep THEN Append(F[n - 1], list[n]) ELSE F[n - 1]
    IN  F[Len(list)]

\* a filter that lets every outcome count as a success
SuccessfulAll(list) == list

\* results.filter(r => r.success) and results.filter(r => !r.success)
Successful(list) == SelectSeq2(list, TRUE)
Failed(list) == SelectSeq2(list, FALSE)

\* successful.reduce / forEach: data[r.symbol] = r.data, in list order
DataOf(list) ==
    LET F[n \in 0..Len(list)] ==
            IF n = 0 THEN EmptyObj
            ELSE ObjSet(F[n - 1], list[n].symbol, list[n].data)
    IN  F[Len(list)]

\* failed.reduce / forEach: errors[r.symbol] = {error, details}, in list order
ErrorsOf(list) ==
    LET F[n \in 0..Len(list)] ==
            IF n = 0 THEN EmptyObj
            ELSE ObjSet(F[n - 1], list[n].symbol,
                        [error |-> list[n].error, details |-> list[n].details])
    IN  F[Len(list)]

\* the payload of lines 219-244, 502-519 and 1052-1078
Payload(syms, list) ==
    [kind |-> "batch",
     meta |-> [requested |-> Length(syms),
               successful |-> Len(Successful(list)),
               failed |-> Len(Failed(list))],
     data |-> DataOf(Successful(list)),
     errors |-> ErrorsOf(Failed(list))]

\* lines 523-529
StatusRetry(list) ==
    IF Len(Failed(list)) = 0 THEN 200
    ELSE IF Len(Successful(list)) > 0 THEN 207
    ELSE 502

\* a status rule that keeps 200 for complete success only
StatusDeadlineStrict(list) ==
    IF Len(Failed(list)) = 0 THEN 200 ELSE 207

\* lines 249-256 and 1083-1088
StatusDeadline(list) ==
    IF Len(Successful(list)) > 0 THEN 200 ELSE 207

CompileStatus(v, list) ==
    IF v = "retry" THEN StatusRetry(list) ELSE StatusDeadline(list)

\* a compiler that sends its payload without a caching header
CacheControlNone(v) == "none"

\* the Cache-Control header set before the payload is sent
CacheControl(v) ==
    CASE v = "batch"    -> "public, max-age=30"
      [] v = "retry"    -> "public, s-maxage=60, stale-while-revalidate=120"
      [] v = "enhanced" -> "public, max-age=60"

----------------------------------------------------------------------------
(* Requests and upstream behaviours the model draws from. *)

Variants == BatchVariants \cup SingleVariants

ParamTokens == {"RELIANCE", "TCS", ",", " "}

\* every string of at most n tokens
RECURSIVE StringsUpTo(_)
StringsUpTo(n) ==
    IF n = 0 THEN {<<>>}
    ELSE LET shorter == StringsUpTo(n - 1)
         IN  shorter \cup {Append(s, t) : s \in shorter, t \in ParamTokens}

Get(sym, syms, ep) ==
    [method |-> "GET", query |-> [symbol |-> sym, symbols |-> syms, endpoint |-> ep],
     body |-> Undefined]
Post(body) ==
    [method |-> "POST", query |-> [symbol |-> Undefined, symbols |-> Undefined,
                                   endpoint |-> Undefined],
     body |-> body]
Body(syms, ep) == [t |-> "object", symbols |-> syms, endpoint |-> ep]
Other(m) ==
    [method |-> m, query |-> [symbol |-> Undefined, symbols |-> Undefined,
                              endpoint |-> Undefined],
     body |-> Undefined]

QSymbol == {Undefined, JStr(<<"RELIANCE">>), JStr(<<" ">>)}
QSymbols ==
    {Undefined, JArr(<<<<"RELIANCE">>, <<"TCS">> >>),
     JStr(<<"__proto__", ",", "TCS">>)}
        \cup {JStr(s) : s \in StringsUpTo(MaxParamLen)}
QEndpoint ==
    {Undefined, JStr(<<>>), JStr(Quote), JStr(<<"chart">>), JStr(<<"bogus">>),
     JStr(<<"constructor">>)}

Pair == JArr(<<<<"RELIANCE">>, <<"TCS">> >>)

WideNames ==
    <<"RELIANCE", "TCS", "INFY", "HDFCBANK", "ITC", "SBIN", "LT", "WIPRO",
      "AXISBANK", "MARUTI", "TITAN", "ONGC">>

\* the first n names as an array of symbols
Names(n) == JArr([j \in 1..n |-> <<WideNames[j]>>])

\* one full window of names followed by a symbol that cannot be encoded
LateSurrogate == JArr(Names(MAX_CONCURRENT_RETRY).v \o << <<LoneSurrogate>> >>)

InputRequests ==
    {Get(a, b, Undefined) : a \in QSymbol, b \in QSymbols}
        \cup {Get(a, b, c) : a \in {Undefined, JStr(<<"RELIANCE">>)},
                             b \in {Undefined, JStr(<<"RELIANCE", ",", "TCS">>)},
                             c \in QEndpoint}
        \cup {Post(Undefined)}
        \cup {Post(Body(a, c)) :
                a \in {Undefined, JArr(<<>>), Pair, JStr(<<"RELIANCE">>)},
                c \in QEndpoint}
        \cup {Other("OPTIONS"), Other("DELETE")}

\* requests to the single-symbol proxy: with and without `symbol`, for every
\* endpoint kind of nseEndpoints
SingleRequests ==
    {Get(a, Undefined, JStr(SingleKeys[j])) :
        a \in {Undefined, JStr(<<>>), JStr(<<"RELIANCE">>)}, j \in DOMAIN SingleKeys}

BatchRequests ==
    {Post(Body(a, JStr(Quote))) :
        a \in {Pair, JArr(<<<<"TCS">>, <<"TCS">> >>),
               JArr(<<ProtoKey, <<"TCS">> >>),
               JArr(<<<<"TCS">>, <<LoneSurrogate>> >>)}}

NoCookie == Null
CookieA == JStr(<<"nsit", "=", "a1", ";", " ", "Path", "=", "/">>)
CookieB == JStr(<<"nsit", "=", "b2", ",", " ", "nseappid", "=", "x", "=", "=">>)

QuietNav == [status |-> {200}, faults |-> {}, hdrs |-> {CookieA}]
RichNav == [status |-> {200, 403}, faults |-> {"neterr", "timeout"},
            hdrs |-> {NoCookie, CookieA, CookieB}]
QuietData == [status |-> {200}, bodies |-> {"json"}, faults |-> {}]
RichData == [status |-> {200, 401, 503}, bodies |-> {"json", "html", "reset"},
             faults |-> {"neterr", "timeout", "stall"}]
MediumData == [status |-> {200, 401}, bodies |-> {"json"}, faults |-> {"timeout"}]
OnlyTimeout == [status |-> {}, bodies |-> {}, faults |-> {"timeout"}]

Env(n, d) == [nav |-> n, data |-> d]

Scenarios ==
    {[req |-> r, env |-> Env(QuietNav, QuietData)] : r \in InputRequests \cup SingleRequests}
        \cup {[req |-> Get(JStr(<<"RELIANCE">>), Undefined, Undefined),
                env |-> Env(RichNav, RichData)]}
        \cup {[req |-> r, env |-> Env(QuietNav, RichData)] : r \in BatchRequests}
        \cup {[req |-> Post(Body(Pair, JStr(Quote))), env |-> Env(RichNav, QuietData)]}
        \cup {[req |-> Post(Body(Names(4), JStr(Quote))), env |-> Env(QuietNav, MediumData)]}
        \cup {[req |-> Post(Body(LateSurrogate, JStr(Quote))), env |-> Env(QuietNav, QuietData)]}
        \cup {[req |-> Post(Body(Names(WideCount), JStr(Quote))), env |-> Env(QuietNav, d)] :
                d \in {QuietData, OnlyTimeout}}

\* the Access-Control headers every handler sets before anything else
CorsHeaders(v) ==
    [origin |-> "*",
     methods |-> IF v = "retry" THEN "GET, POST, OPTIONS"
                 ELSE "GET, POST, PUT, DELETE, OPTIONS"]

NoResponse ==
    [status |-> 0, body |-> [kind |-> "none"], cache |-> "none",
     cors |-> [origin |-> "none", methods |-> "none"]]

\* the state of an invocation of handler v when it is called in scenario sc
Entry(v, sc) ==
    [variant |-> v, req |-> sc.req, env |-> sc.env,
     pc |-> "entry",
     symbols |-> JArr(<<>>),
     endpoint |-> JStr(Quote),
     nav |-> "none",
     navRequest |-> [step |-> "none", cookie |-> Undefined],
     navResponse |-> [request |-> 0, step |-> "none", status |-> 0, hdr |-> Null],
     attempt |-> 0,
     lastError |-> "none",
     mainCookies |-> <<>>,
     sessionCookies |-> <<>>,
     idx |-> 0,
     ist |-> <<>>,
     out |-> <<>>,
     wire |-> <<>>,
     results |-> <<>>,
     now |-> 0,
     startTime |-> 0,
     res |-> NoResponse,
     sent |-> 0,
     calls |-> [nav |-> 0, data |-> 0, orphans |-> 0, timers |-> 0],
     trace |-> <<>>]

\* no other invocation
Nobody == [pc |-> "nobody"]

\* the invocation starts in state e
StartAs(e) ==
    /\ variant = e.variant
    /\ req = e.req
    /\ env = e.env
    /\ pc = e.pc
    /\ symbols = e.symbols
    /\ endpoint = e.endpoint
    /\ nav = e.nav
    /\ navRequest = e.navRequest
    /\ navResponse = e.navResponse
    /\ attempt = e.attempt
    /\ lastError = e.lastError
    /\ mainCookies = e.mainCookies
    /\ sessionCookies = e.sessionCookies
    /\ idx = e.idx
    /\ ist = e.ist
    /\ out = e.out
    /\ wire = e.wire
    /\ results = e.results
    /\ now = e.now
    /\ startTime = e.startTime
    /\ res = e.res
    /\ sent = e.sent
    /\ calls = e.calls
    /\ trace = e.trace

\* an invocation of some handler is called in one of the scenarios
Start(scenarios) == \E v \in Variants, sc \in scenarios : StartAs(Entry(v, sc))

Init == Start(Scenarios) /\ peer = Nobody

----------------------------------------------------------------------------
(* Steps of a handler. *)

N == Length(symbols)

\* a slice that reaches one entry into the next window
ChunkWide(i) == {k \in 1..N : k > i /\ k <= i + MaxConcurrent(variant) + 1}

\* the entries of the window that starts at i (symbols.slice(i, i + W))
Chunk(i) == {k \in 1..N : k > i /\ k <= i + MaxConcurrent(variant)}

\* res.status(status).json(body) / .end()
Send(status, body, cache) ==
    /\ res' = [status |-> status, body |-> body, cache |-> cache,
               cors |-> CorsHeaders(variant)]
    /\ sent' = sent + 1
    /\ pc' = "done"

FatalBody(v, msg) ==
    [kind |-> "fatal",
     error |-> IF v = "retry" THEN "Service Unavailable" ELSE "Internal server error",
     message |-> msg]

\* the handler's outer catch: lines 258-265, 531-537, 1090-1096
Catch(msg) ==
    Send(IF variant = "retry" THEN 503 ELSE 500, FatalBody(variant, msg), res.cache)

\* the single-symbol proxies call fetch(targetUrl): an inherited member of
\* nseEndpoints is no URL, fetch throws and the handler's catch answers
SendProxyRequest(ep) ==
    IF SingleLookup(ep).t = "url"
    THEN /\ pc' = "fetch"
         /\ calls' = [calls EXCEPT !.data = @ + 1]
         /\ UNCHANGED <<res, sent>>
    ELSE /\ Catch("Failed to parse URL")
         /\ UNCHANGED calls

\* the handler up to its first await: the response of a rejected request,
\* or the first navigation request of the session
HandleRequest ==
    /\ pc = "entry"
    /\ LET p == Prologue(variant, req)
       IN  CASE p.kind = "respond" ->
                  /\ Send(p.status, p.body, "none")
                  /\ UNCHANGED <<symbols, endpoint, nav, attempt, calls, ist, out, wire>>
             [] p.kind = "throw" /\ variant = "retry" ->
                  \* thrown outside the try block: nothing is sent
                  /\ pc' = "crashed"
                  /\ UNCHANGED <<symbols, endpoint, nav, attempt, calls, ist, out,
                                 wire, res, sent>>
             [] p.kind = "throw" /\ variant # "retry" ->
                  /\ Catch(p.message)
                  /\ UNCHANGED <<symbols, endpoint, nav, attempt, calls, ist, out, wire>>
             [] p.kind = "proceed" /\ variant = "single" ->
                  \* nse-proxy.js line 49: getSessionFromNSE sends its request
                  /\ endpoint' = p.endpoint
                  /\ pc' = "session"
                  /\ nav' = "main"
                  /\ calls' = [calls EXCEPT !.nav = @ + 1]
                  /\ UNCHANGED <<symbols, attempt, ist, out, wire, res, sent>>
             [] p.kind = "proceed" /\ variant = "direct" ->
                  \* nse-proxy.js line 317: the data request goes out at once
                  /\ endpoint' = p.endpoint
                  /\ SendProxyRequest(p.endpoint)
                  /\ UNCHANGED <<symbols, nav, attempt, ist, out, wire>>
             [] OTHER ->
                  /\ symbols' = p.symbols
                  /\ endpoint' = p.endpoint
                  /\ pc' = "session"
                  /\ nav' = "main"
                  /\ attempt' = IF variant = "retry" THEN 1 ELSE 0
                  /\ calls' = [calls EXCEPT !.nav = @ + 1]
                  /\ ist' = [k \in 1..Length(p.symbols) |-> "idle"]
                  /\ out' = [k \in 1..Length(p.symbols) |-> Undefined]
                  /\ wire' = [k \in 1..Length(p.symbols) |-> [kind |-> "none"]]
                  /\ UNCHANGED <<res, sent>>
    /\ navRequest' = IF Prologue(variant, req).kind = "proceed" /\ variant # "direct"
                     THEN [step |-> "main", cookie |-> Undefined]
                     ELSE navRequest
    /\ UNCHANGED <<peer, variant, req, env, navResponse, lastError, mainCookies, sessionCookies,
                   idx, results, now, startTime, trace>>

\* the session is over: the batch loop starts (startTime is taken here in
\* the handlers with a deadline, at the top of the handler otherwise)
BeginLoop(cookies, how) ==
    /\ sessionCookies' = cookies
    /\ nav' = how
    /\ pc' = "loop"
    /\ idx' = 0
    /\ startTime' = IF variant = "retry" THEN startTime ELSE now
    /\ UNCHANGED <<res, sent>>

\* a loop bound that lets one attempt too many through
AttemptsLeftOffByOne(a) == a <= MAX_ATTEMPTS

\* whether another attempt follows attempt a (lines 333 and 382)
AttemptsLeft(a) == a < MAX_ATTEMPTS

\* an establisher that surfaces the error of its first failed attempt
AttemptFailedFirstError(msg) ==
    /\ lastError' = IF lastError = "none" THEN msg ELSE lastError
    /\ IF AttemptsLeft(attempt)
       THEN /\ nav' = "backoff"
            /\ UNCHANGED <<pc, res, sent, sessionCookies, idx, startTime>>
       ELSE /\ nav' = "failed"
            /\ Catch("Failed to establish NSE session after " \o ToString(MAX_ATTEMPTS)
                        \o " attempts. Last error: " \o lastError')
            /\ UNCHANGED <<sessionCookies, idx, startTime>>

\* getSessionCookies, lines 379-389: an attempt failed
AttemptFailed(msg) ==
    /\ lastError' = msg
    /\ IF AttemptsLeft(attempt)
       THEN /\ nav' = "backoff"
            /\ UNCHANGED <<pc, res, sent, sessionCookies, idx, startTime>>
       ELSE /\ nav' = "failed"
            /\ Catch("Failed to establish NSE session after " \o ToString(MAX_ATTEMPTS)
                        \o " attempts. Last error: " \o msg)
            /\ UNCHANGED <<sessionCookies, idx, startTime>>

\* nse-proxy.js extractCookies (lines 216-231): `cookies[name] = value` for
\* every Set-Cookie line that holds an equals sign before its first semicolon
RECURSIVE ExtractCookies(_, _)
ExtractCookies(setCookieHeaders, cookies) ==
    IF setCookieHeaders = <<>> THEN cookies
    ELSE LET cookieParts == Split(Split(Head(setCookieHeaders), ";")[1], "=")
         IN  IF Len(cookieParts) >= 2
             THEN ExtractCookies(Tail(setCookieHeaders),
                                 MapSet(cookies, Trim(cookieParts[1]),
                                        Trim(Join(Tail(cookieParts), <<"=">>))))
             ELSE ExtractCookies(Tail(setCookieHeaders), cookies)

\* getSessionFromNSE, lines 178-189: the Set-Cookie lines of the home page
\* (headers.raw() as node-fetch provides it; the model's header value holds
\* the lines joined by commas) parsed and formatted as a Cookie header
SingleCookieHeader(hdr) ==
    IF ~Truthy(hdr) THEN <<>>
    ELSE MapToCookieString(ExtractCookies(Split(hdr.v, ","), <<>>))

\* nse-proxy.js lines 53-57
SessionFailedBody(msg) ==
    [kind |-> "fatal", error |-> "Failed to establish NSE session", message |-> msg]

\* fetchWithTimeout of the handlers with a deadline never clears its timer;
\* the one of the handler with retrying session clears it when fetch settles
LeakTimer == [calls EXCEPT !.timers = IF variant = "retry" THEN @ ELSE @ + 1]

\* a navigation request is answered with a status and a set-cookie value
NavResponds(status, hdr) ==
    /\ pc = "session"
    /\ nav \in {"main", "market", "quotes"}
    /\ CASE variant = "single" /\ IsOk(status) ->
              \* getSessionFromNSE returns the cookie header; the data request follows
              /\ sessionCookies' = SingleCookieHeader(hdr)
              /\ nav' = "done"
              /\ SendProxyRequest(endpoint)
              /\ UNCHANGED <<lastError, mainCookies, attempt, idx, startTime>>
         [] variant = "single" /\ ~IsOk(status) ->
              /\ nav' = "failed"
              /\ Send(500, SessionFailedBody("Homepage request failed: " \o ToString(status)),
                      "none")
              /\ UNCHANGED <<lastError, mainCookies, attempt, idx, startTime, calls,
                             sessionCookies>>
         [] variant = "batch" ->
              /\ BeginLoop(OrEmpty(hdr), "done")
              /\ calls' = LeakTimer
              /\ UNCHANGED <<lastError, mainCookies, attempt>>
         [] variant = "retry" /\ ~IsOk(status) ->
              /\ AttemptFailed((IF nav = "main" THEN "Main page fetch failed: "
                                ELSE "Market data page fetch failed: ")
                               \o ToString(status))
              /\ UNCHANGED <<mainCookies, attempt, calls>>
         [] variant = "retry" /\ IsOk(status) /\ nav = "main" ->
              /\ mainCookies' = OrEmpty(hdr)
              /\ nav' = "pause"
              /\ UNCHANGED <<pc, res, sent, sessionCookies, idx, startTime, lastError,
                             attempt, calls>>
         [] variant = "retry" /\ IsOk(status) /\ nav = "market" ->
              /\ BeginLoop(FinalCookiesRetry(mainCookies, hdr), "done")
              /\ UNCHANGED <<lastError, mainCookies, attempt, calls>>
         [] variant = "enhanced" /\ nav = "main" /\ status # 200 ->
              /\ BeginLoop(CleanupEnhanced(sessionCookies), "done")
              /\ calls' = LeakTimer
              /\ UNCHANGED <<lastError, mainCookies, attempt>>
         [] variant = "enhanced" /\ nav = "quotes" ->
              /\ BeginLoop(CleanupEnhanced(
                    IF status = 200 /\ Truthy(hdr)
                    THEN sessionCookies \o <<";", " ">> \o FirstParts(hdr.v)
                    ELSE sessionCookies), "done")
              /\ calls' = LeakTimer
              /\ UNCHANGED <<lastError, mainCookies, attempt>>
         [] OTHER ->
              \* enhanced: the main page with 200, or the market-data page
              /\ sessionCookies' =
                    IF nav = "main"
                    THEN IF Truthy(hdr) THEN FirstParts(hdr.v) ELSE <<>>
                    ELSE IF status = 200 /\ Truthy(hdr)
                         THEN sessionCookies \o <<";", " ">> \o FirstParts(hdr.v)
                         ELSE sessionCookies
              /\ nav' = IF nav = "main" THEN "pause" ELSE "pause2"
              /\ calls' = LeakTimer
              /\ UNCHANGED <<pc, res, sent, idx, startTime, lastError, mainCookies,
                             attempt>>
    /\ navResponse' = [request |-> calls.nav, step |-> nav, status |-> status,
                       hdr |-> hdr]
    /\ UNCHANGED <<peer, variant, req, env, navRequest, symbols, endpoint, ist, out, wire,
                   results, now, trace>>

\* a navigation request fails: a network error, or its timeout fires first
NavFails(fault) ==
    /\ pc = "session"
    /\ nav \in {"main", "market", "quotes"}
    /\ CASE variant = "single" ->
              /\ fault = "neterr"
              /\ nav' = "failed"
              /\ Send(500, SessionFailedBody("fetch failed"), "none")
              /\ UNCHANGED <<lastError, mainCookies, attempt, idx, startTime, calls,
                             sessionCookies>>
         [] variant = "retry" ->
              /\ AttemptFailed(FaultMessage(variant, fault))
              /\ UNCHANGED <<mainCookies, attempt, calls>>
         [] variant = "batch" ->
              \* lines 90-93: logged, the handler goes on without cookies
              /\ BeginLoop(<<>>, "degraded")
              /\ calls' = IF fault = "timeout" THEN calls ELSE LeakTimer
              /\ UNCHANGED <<lastError, mainCookies, attempt>>
         [] OTHER ->
              \* lines 893-895: logged, the handler goes on with what it has
              /\ BeginLoop(CleanupEnhanced(sessionCookies), "degraded")
              /\ calls' = IF fault = "timeout" THEN calls ELSE LeakTimer
              /\ UNCHANGED <<lastError, mainCookies, attempt>>
    /\ UNCHANGED <<peer, variant, req, env, navRequest, navResponse,
                   symbols, endpoint, ist, out, wire, results, now, trace>>

\* a later request that presents no cookies at all
NavCookieNone(v, step) == Undefined

\* the Cookie header of a navigation request: none for the home page, the
\* home page's set-cookie value at line 358, `sessionCookies` at lines 840
\* and 875
NavCookie(v, step) ==
    IF step = "main" THEN Undefined
    ELSE IF v = "retry" THEN JStr(mainCookies)
    ELSE JStr(sessionCookies)

\* a wait inside session establishment is over: the next request goes out
PauseElapses ==
    /\ pc = "session"
    /\ nav \in {"pause", "pause2", "backoff"}
    /\ nav' = CASE nav = "pause"  -> "market"
                [] nav = "pause2" -> "quotes"
                [] OTHER          -> "main"
    /\ attempt' = IF nav = "backoff" THEN attempt + 1 ELSE attempt
    /\ calls' = [calls EXCEPT !.nav = @ + 1]
    /\ navRequest' = [step |-> nav', cookie |-> NavCookie(variant, nav')]
    /\ UNCHANGED <<peer, variant, req, env, navResponse, pc, symbols, endpoint, lastError,
                   mainCookies, sessionCookies, idx, ist, out, wire, results, now,
                   startTime, res, sent, trace>>

----------------------------------------------------------------------------
(* The batch loop. *)

ProcessingTimeoutMessage(v) ==
    IF v = "batch"
    THEN "Processing timeout - request cancelled to avoid Vercel timeout"
    ELSE "Processing timeout"

\* a cut-off that forgets the first symbol it should cover
TimeoutOutcomesShort(v, syms, i) ==
    [j \in 1..(Len(syms) - i - 1) |->
        Failure(syms[i + j + 1], ProcessingTimeoutMessage(v), Undefined)]

\* lines 171-178 and 1002-1009: a failure for every symbol from i on
TimeoutOutcomes(v, syms, i) ==
    [j \in 1..(Len(syms) - i) |->
        Failure(syms[i + j], ProcessingTimeoutMessage(v), Undefined)]

\* a request that leaves the Cookie header out
CookieHeaderNone(v, cookies) == Undefined

\* the Cookie header of a data request (lines 118 and 413; lines 936-938 set
\* it only when the session cookie string is not empty)
CookieHeader(v, cookies) ==
    IF v = "enhanced" /\ cookies = <<>> THEN Undefined ELSE JStr(cookies)

\* Date.now() - startTime > MAX_PROCESSING_TIME
DeadlineExceeded(v, elapsed) == v # "retry" /\ elapsed > MaxProcessingTime(v)

\* the top of a loop iteration: leave the loop, cut off at the deadline, or
\* dispatch the fetches of the next window
LoopStep ==
    /\ pc = "loop"
    /\ IF idx >= N
       THEN /\ pc' = "compile"
            /\ UNCHANGED <<results, ist, out, calls, trace, res, sent>>
       ELSE IF DeadlineExceeded(variant, now - startTime)
       THEN /\ results' = results \o TimeoutOutcomes(variant, symbols.v, idx)
            /\ trace' = Append(trace, [ev |-> "cutoff", at |-> idx,
                                       time |-> now])
            /\ pc' = "compile"
            /\ UNCHANGED <<ist, out, calls, res, sent>>
       ELSE IF symbols.t # "array"
       THEN \* chunk.join is not a function: caught by the handler's catch
            /\ Catch("chunk.join is not a function")
            /\ UNCHANGED <<results, ist, out, calls, trace>>
       ELSE /\ trace' = Append(trace, [ev |-> "dispatch", at |-> idx,
                                       time |-> now,
                                       cookie |-> CookieHeader(variant, sessionCookies)])
            /\ pc' = "await"
            /\ IF variant = "retry"
               THEN LET early == {k \in Chunk(idx) :
                                    BeforeTry(symbols.v[k], endpoint).settle # "pending"}
                    IN  /\ ist' = [k \in 1..N |->
                                     IF k \in early THEN "done"
                                     ELSE IF k \in Chunk(idx) THEN "sent"
                                     ELSE ist[k]]
                        /\ out' = [k \in 1..N |->
                                     IF k \in early
                                     THEN BeforeTry(symbols.v[k], endpoint)
                                     ELSE out[k]]
                        /\ calls' = [calls EXCEPT
                                        !.data = @ + Cardinality(Chunk(idx) \ early)]
               ELSE IF variant = "enhanced"
               THEN \* each fetch first waits 500 ms
                    /\ ist' = [k \in 1..N |-> IF k \in Chunk(idx) THEN "wait" ELSE ist[k]]
                    /\ UNCHANGED <<out, calls>>
               ELSE /\ ist' = [k \in 1..N |-> IF k \in Chunk(idx) THEN "sent" ELSE ist[k]]
                    /\ calls' = [calls EXCEPT !.data = @ + Cardinality(Chunk(idx))]
                    /\ UNCHANGED out
            /\ UNCHANGED <<results, res, sent>>
    /\ UNCHANGED <<peer, variant, req, env, navRequest, navResponse,
                   symbols, endpoint, nav, attempt, lastError,
                   mainCookies, sessionCookies, idx, wire, now, startTime>>

\* a dispatched fetch goes on whether or not the handler still awaits it
Running == pc \in {"await", "done"}

\* enhanced handler, line 917: the wait before a data request is over
PreDelayElapses(k) ==
    /\ Running
    /\ ist[k] = "wait"
    /\ ist' = [ist EXCEPT ![k] = "sent"]
    /\ calls' = [calls EXCEPT !.data = @ + 1]
    /\ UNCHANGED <<peer, variant, req, env, navRequest, navResponse,
                   pc, symbols, endpoint, nav, attempt, lastError,
                   mainCookies, sessionCookies, idx, out, wire, results, now, startTime,
                   res, sent, trace>>

\* entry k settles while an entry dispatched before it in the same window is
\* still under way
Overtakes(k) == \E j \in Chunk(idx) : j < k /\ ist[j] # "done"

\* the trace already notes that the current window settled out of order
OvertakeNoted ==
    \E j \in DOMAIN trace : trace[j].ev = "overtake" /\ trace[j].at = idx

\* the request of entry k ends with upstream event ev and its fetcher settles
Settle(k, ev) ==
    /\ ist' = [ist EXCEPT ![k] = "done"]
    /\ wire' = [wire EXCEPT ![k] = ev]
    /\ out' = [out EXCEPT ![k] = FetchOutcome(variant, symbols.v[k], endpoint, ev)]
    /\ trace' = IF Overtakes(k) /\ ~OvertakeNoted
                THEN Append(trace, [ev |-> "overtake", at |-> idx])
                ELSE trace

\* the upstream answers the data request of entry k: headers and whole body
UpstreamResponds(k, status, body) ==
    /\ Running
    /\ ist[k] = "sent"
    /\ Settle(k, [kind |-> "response", status |-> status, body |-> body])
    /\ calls' = LeakTimer
    /\ UNCHANGED <<peer, variant, req, env, navRequest, navResponse,
                   pc, symbols, endpoint, nav, attempt, lastError,
                   mainCookies, sessionCookies, idx, results, now, startTime,
                   res, sent>>

\* the upstream sends the response headers of entry k and then stalls: the
\* fetch promise has settled, the body is being read
UpstreamStalls(k, status) ==
    /\ Running
    /\ ist[k] = "sent"
    /\ ist' = [ist EXCEPT ![k] = "body"]
    /\ out' = [out EXCEPT ![k] = [settle |-> "reading", value |-> status]]
    /\ wire' = [wire EXCEPT ![k] = [kind |-> "stalled", status |-> status]]
    /\ calls' = LeakTimer
    /\ UNCHANGED <<peer, variant, req, env, navRequest, navResponse,
                   pc, symbols, endpoint, nav, attempt, lastError,
                   mainCookies, sessionCookies, idx, results, now, startTime,
                   res, sent, trace>>

\* the body of a stalled response arrives after all
BodyArrives(k, body) ==
    /\ Running
    /\ ist[k] = "body"
    /\ Settle(k, [kind |-> "response", status |-> out[k].value, body |-> body])
    /\ UNCHANGED <<peer, variant, req, env, navRequest, navResponse,
                   pc, symbols, endpoint, nav, attempt, lastError,
                   mainCookies, sessionCookies, idx, results, now, startTime,
                   res, sent, calls>>

\* a fetcher that sends its request once more when the network fails
UpstreamFailsRetried(k) ==
    /\ Running
    /\ ist[k] = "sent"
    /\ calls.data <= N
    /\ calls' = [calls EXCEPT !.data = @ + 1]
    /\ UNCHANGED <<peer, variant, req, env, navRequest, navResponse,
                   pc, symbols, endpoint, nav, attempt, lastError,
                   mainCookies, sessionCookies, idx, ist, out, wire, results, now,
                   startTime, res, sent, trace>>

\* the data request of entry k fails in the network
UpstreamFails(k) ==
    /\ Running
    /\ ist[k] = "sent"
    /\ Settle(k, [kind |-> "fault", fault |-> "neterr"])
    /\ calls' = LeakTimer
    /\ UNCHANGED <<peer, variant, req, env, navRequest, navResponse,
                   pc, symbols, endpoint, nav, attempt, lastError,
                   mainCookies, sessionCookies, idx, results, now, startTime,
                   res, sent>>

\* the timeout of entry k fires before its request has settled: the handler
\* with retrying session aborts the request, the others leave it running
TimerFires(k) ==
    /\ Running
    /\ ist[k] = "sent"
    /\ Settle(k, [kind |-> "fault", fault |-> "timeout"])
    /\ calls' = [calls EXCEPT !.orphans = IF variant = "retry" THEN @ ELSE @ + 1]
    /\ UNCHANGED <<peer, variant, req, env, navRequest, navResponse,
                   pc, symbols, endpoint, nav, attempt, lastError,
                   mainCookies, sessionCookies, idx, results, now, startTime,
                   res, sent>>

\* the entries of the window that starts at i, last dispatched first
ChunkSeqReversed(i) ==
    [j \in 1..Cardinality(Chunk(i)) |-> i + Cardinality(Chunk(i)) + 1 - j]

\* the entries of the window that starts at i, in dispatch order: the order
\* in which Promise.all delivers their outcomes
ChunkSeq(i) == [j \in 1..Cardinality(Chunk(i)) |-> i + j]

\* a join that cancels a window which ends after the deadline
ChunkResultsCancelled(i) ==
    [j \in DOMAIN ChunkSeq(i) |->
        IF DeadlineExceeded(variant, now - startTime)
        THEN Failure(symbols.v[ChunkSeq(i)[j]], ProcessingTimeoutMessage(variant),
                     Undefined)
        ELSE out[ChunkSeq(i)[j]].value]

\* chunkResults (lines 186, 490 and 1019): what Promise.all resolves to
ChunkResults(i) == [j \in DOMAIN ChunkSeq(i) |-> out[ChunkSeq(i)[j]].value]

Rejected(i) == {k \in Chunk(i) : ist[k] = "done" /\ out[k].settle = "rejected"}

ChunkFailedMessage(v, msg) ==
    (IF v = "batch" THEN "Chunk processing failed: " ELSE "Chunk failed: ") \o msg

\* whether an inter-window wait follows the window that starts at i
DelayFollows(v, i, n) == v # "batch" /\ i + MaxConcurrent(v) < n

\* Promise.all of the window has settled: append its outcomes and go on
WindowJoin ==
    /\ pc = "await"
    /\ \/ Rejected(idx) # {}
       \/ \A k \in Chunk(idx) : ist[k] = "done"
    /\ IF Rejected(idx) # {}
       THEN LET msg == out[CHOOSE k \in Rejected(idx) : TRUE].value
            IN  IF variant = "retry"
                THEN /\ Catch(msg)
                     /\ UNCHANGED <<results, idx, trace>>
                ELSE /\ results' = results \o
                            [j \in 1..Cardinality(Chunk(idx)) |->
                                Failure(symbols.v[idx + j],
                                        ChunkFailedMessage(variant, msg), Undefined)]
                     /\ idx' = idx + MaxConcurrent(variant)
                     /\ pc' = "loop"
                     /\ trace' = Append(trace, [ev |-> "join", at |-> idx,
                                                time |-> now])
                     /\ UNCHANGED <<res, sent>>
       ELSE /\ results' = results \o ChunkResults(idx)
            /\ trace' = Append(trace, [ev |-> "join", at |-> idx,
                                       time |-> now])
            /\ IF DelayFollows(variant, idx, N)
               THEN pc' = "delay" /\ idx' = idx
               ELSE pc' = "loop" /\ idx' = idx + MaxConcurrent(variant)
            /\ UNCHANGED <<res, sent>>
    /\ UNCHANGED <<peer, variant, req, env, navRequest, navResponse,
                   symbols, endpoint, nav, attempt, lastError,
                   mainCookies, sessionCookies, ist, out, wire, now, startTime, calls>>

\* a wait between two windows that throws the session cookies away
DelayElapsesForgetful ==
    /\ pc = "delay"
    /\ pc' = "loop"
    /\ idx' = idx + MaxConcurrent(variant)
    /\ trace' = Append(trace, [ev |-> "delay", at |-> idx, time |-> now])
    /\ sessionCookies' = <<>>
    /\ UNCHANGED <<peer, variant, req, env, navRequest, navResponse,
                   symbols, endpoint, nav, attempt, lastError,
                   mainCookies, ist, out, wire, results, now, startTime,
                   res, sent, calls>>

\* the wait between two windows is over
DelayElapses ==
    /\ pc = "delay"
    /\ pc' = "loop"
    /\ idx' = idx + MaxConcurrent(variant)
    /\ trace' = Append(trace, [ev |-> "delay", at |-> idx, time |-> now])
    /\ UNCHANGED <<peer, variant, req, env, navRequest, navResponse,
                   symbols, endpoint, nav, attempt, lastError,
                   mainCookies, sessionCookies, ist, out, wire, results, now, startTime,
                   res, sent, calls>>

\* the response is compiled from the outcome list and sent
Compile ==
    /\ pc = "compile"
    /\ Send(CompileStatus(variant, results), Payload(symbols, results),
            CacheControl(variant))
    /\ UNCHANGED <<peer, variant, req, env, navRequest, navResponse,
                   symbols, endpoint, nav, attempt, lastError,
                   mainCookies, sessionCookies, idx, ist, out, wire, results, now,
                   startTime, calls, trace>>

\* nse-proxy.js lines 91-107 and 334-346: the upstream's error is relayed
ProxiedError(status, body) ==
    [kind |-> "relayed",
     error |-> "NSE API Error: " \o ToString(status) \o " " \o StatusText(status),
     details |-> IF status = 401
                 THEN <<"NSE API requires session cookies.">>
                 ELSE Substring(BodyText(body), DETAILS_MAX),
     symbol |-> req.query.symbol,
     endpoint |-> endpoint]

\* nse-proxy.js lines 113-127 and 352-362: the payload with its _meta
EnrichedData ==
    [kind |-> "single",
     data |-> [doc |-> [kind |-> endpoint.v, symbol |-> req.query.symbol]],
     meta |-> [symbol |-> req.query.symbol, endpoint |-> endpoint, status |-> "success"]]

\* the single-symbol proxy's data request is answered
ProxyResponds(status, body) ==
    /\ pc = "fetch"
    /\ IF body = "reset" THEN Catch("terminated")
       ELSE IF ~IsOk(status) THEN Send(status, ProxiedError(status, body), "none")
       ELSE IF body # "json" THEN Catch("Unexpected token in JSON")
       ELSE Send(200, EnrichedData, "public, max-age=30")
    /\ UNCHANGED <<peer, variant, req, env, navRequest, navResponse,
                   symbols, endpoint, nav, attempt, lastError,
                   mainCookies, sessionCookies, idx, ist, out, wire, results, now,
                   startTime, calls, trace>>

\* the single-symbol proxy's data request fails on the network
ProxyFails ==
    /\ pc = "fetch"
    /\ Catch("fetch failed")
    /\ UNCHANGED <<peer, variant, req, env, navRequest, navResponse,
                   symbols, endpoint, nav, attempt, lastError,
                   mainCookies, sessionCookies, idx, ist, out, wire, results, now,
                   startTime, calls, trace>>

\* time passes while the handler waits
Tick ==
    /\ pc \in {"session", "await", "delay"}
    /\ now < MaxClock
    /\ now' = now + ClockStep
    /\ UNCHANGED <<peer, variant, req, env, navRequest, navResponse,
                   pc, symbols, endpoint, nav, attempt, lastError,
                   mainCookies, sessionCookies, idx, ist, out, wire, results, startTime,
                   res, sent, calls, trace>>

\* a data request whose caller stopped waiting for it settles at last.  It
\* changes nothing the handler reads, so it is scheduled after the handler.
OrphanSettles ==
    /\ pc = "done"
    /\ calls.orphans > 0
    /\ calls' = [calls EXCEPT !.orphans = @ - 1]
    /\ UNCHANGED <<peer, variant, req, env, navRequest, navResponse,
                   pc, symbols, endpoint, nav, attempt, lastError,
                   mainCookies, sessionCookies, idx, ist, out, wire, results, now,
                   startTime, res, sent, trace>>

\* a timer nobody cleared fires after its race is over: no effect
StaleTimerFires ==
    /\ pc = "done"
    /\ calls.timers > 0
    /\ calls' = [calls EXCEPT !.timers = @ - 1]
    /\ UNCHANGED <<peer, variant, req, env, navRequest, navResponse,
                   pc, symbols, endpoint, nav, attempt, lastError,
                   mainCookies, sessionCookies, idx, ist, out, wire, results, now,
                   startTime, res, sent, trace>>

Next ==
    \/ HandleRequest
    \/ \E s \in env.nav.status, h \in env.nav.hdrs : NavResponds(s, h)
    \/ \E f \in env.nav.faults : NavFails(f)
    \/ PauseElapses
    \/ LoopStep
    \/ \E k \in DOMAIN ist : PreDelayElapses(k)
    \/ \E k \in DOMAIN ist, s \in env.data.status, b \in env.data.bodies :
            UpstreamResponds(k, s, b)
    \/ \E k \in DOMAIN ist, s \in env.data.status :
            "stall" \in env.data.faults /\ UpstreamStalls(k, s)
    \/ \E k \in DOMAIN ist, b \in env.data.bodies : BodyArrives(k, b)
    \/ \E k \in DOMAIN ist : "neterr" \in env.data.faults /\ UpstreamFails(k)
    \/ \E k \in DOMAIN ist : "timeout" \in env.data.faults /\ TimerFires(k)
    \/ WindowJoin
    \/ DelayElapses
    \/ Compile
    \/ \E s \in env.data.status, b \in env.data.bodies : ProxyResponds(s, b)
    \/ "neterr" \in env.data.faults /\ ProxyFails
    \/ Tick
    \/ OrphanSettles
    \/ StaleTimerFires

Spec == Init /\ [][Next]_vars

\* Scheduling.  A step of the handler itself is taken once it can be taken:
\* the event loop runs a continuation that is ready and fires a timer that
\* is due.  A request that is out ends: the upstream answers it, the
\* network fails, or the timer of fetchWithTimeout fires.  Nothing makes the
\* upstream finish a body it has begun: after the response headers the
\* timer of lines 316-322 is cleared, and the race of lines 57-64 and 778-785
\* is over.
HandlerStep ==
    \/ HandleRequest
    \/ PauseElapses
    \/ LoopStep
    \/ \E k \in DOMAIN ist : PreDelayElapses(k)
    \/ WindowJoin
    \/ DelayElapses
    \/ Compile

RequestEnds ==
    \/ \E k \in DOMAIN ist, s \in env.data.status, b \in env.data.bodies :
            UpstreamResponds(k, s, b)
    \/ \E k \in DOMAIN ist, s \in env.data.status :
            "stall" \in env.data.faults /\ UpstreamStalls(k, s)
    \/ \E k \in DOMAIN ist : "neterr" \in env.data.faults /\ UpstreamFails(k)
    \/ \E k \in DOMAIN ist : "timeout" \in env.data.faults /\ TimerFires(k)
    \/ \E s \in env.data.status, b \in env.data.bodies : ProxyResponds(s, b)
    \/ "neterr" \in env.data.faults /\ ProxyFails

\* the runs in which scheduling is looked at: one symbol, with a network
\* that may fail and an upstream that may answer, stay silent or stall in
\* the body; four symbols in two windows with an upstream that answers; and
\* a POST that comes without a body
LiveNav == [status |-> {200}, faults |-> {"neterr"}, hdrs |-> {CookieA}]
LiveData == [status |-> {200}, bodies |-> {"json"},
             faults |-> {"neterr", "timeout", "stall"}]

LiveScenarios ==
    {[req |-> Get(JStr(<<"RELIANCE">>), Undefined, Undefined),
      env |-> Env(LiveNav, LiveData)],
     [req |-> Post(Body(Names(MAX_CONCURRENT_ENHANCED + 1), JStr(Quote))),
      env |-> Env(QuietNav, QuietData)],
     [req |-> Post(Undefined), env |-> Env(QuietNav, QuietData)]}

LiveInit == Start(LiveScenarios) /\ peer = Nobody

\* a navigation request is in flight
NavInFlight == pc = "session" /\ nav \in {"main", "market", "quotes"}

\* The handler's own steps and the ends of data requests are weakly fair. A
\* navigation request does not stay in flight for ever either: NavResponds
\* or NavFails is enabled whenever one is in flight and each of them ends it,
\* so that weak fairness of the two is the recurrence of ~NavInFlight.
LiveSpec ==
    LiveInit /\ [][Next]_vars
        /\ []<>~NavInFlight
        /\ WF_vars(HandlerStep) /\ WF_vars(RequestEnds)

\* Two invocations in one process.  Everything an invocation reads or
\* writes is a parameter or a local of its handler and of the functions it
\* calls (`startTime`, `symbols`, `endpoint`, `results`, lines 450-452, 484;
\* `attempt`, `lastError`, lines 329-331); the module holds constants only
\* (lines 287-314).  JavaScript runs an invocation up to its next await and
\* may then go on with the other one.

\* the running invocation
Me ==
    [variant |-> variant,
     req |-> req,
     env |-> env,
     pc |-> pc,
     symbols |-> symbols,
     endpoint |-> endpoint,
     nav |-> nav,
     navRequest |-> navRequest,
     navResponse |-> navResponse,
     attempt |-> attempt,
     lastError |-> lastError,
     mainCookies |-> mainCookies,
     sessionCookies |-> sessionCookies,
     idx |-> idx,
     ist |-> ist,
     out |-> out,
     wire |-> wire,
     results |-> results,
     now |-> now,
     startTime |-> startTime,
     res |-> res,
     sent |-> sent,
     calls |-> calls,
     trace |-> trace]

\* two invocations that append to one outcome list of the module
SwitchSharedResults ==
    /\ peer # Nobody
    /\ pc \notin {"loop", "compile"}
    /\ peer' = Me
    /\ variant' = peer.variant
    /\ req' = peer.req
    /\ env' = peer.env
    /\ pc' = peer.pc
    /\ symbols' = peer.symbols
    /\ endpoint' = peer.endpoint
    /\ nav' = peer.nav
    /\ navRequest' = peer.navRequest
    /\ navResponse' = peer.navResponse
    /\ attempt' = peer.attempt
    /\ lastError' = peer.lastError
    /\ mainCookies' = peer.mainCookies
    /\ sessionCookies' = peer.sessionCookies
    /\ idx' = peer.idx
    /\ ist' = peer.ist
    /\ out' = peer.out
    /\ wire' = peer.wire
    /\ results' = results
    /\ now' = peer.now
    /\ startTime' = peer.startTime
    /\ res' = peer.res
    /\ sent' = peer.sent
    /\ calls' = peer.calls
    /\ trace' = peer.trace

\* the event loop goes on with the other invocation
Switch ==
    /\ peer # Nobody
    /\ pc \notin {"loop", "compile"}
    /\ peer' = Me
    /\ variant' = peer.variant
    /\ req' = peer.req
    /\ env' = peer.env
    /\ pc' = peer.pc
    /\ symbols' = peer.symbols
    /\ endpoint' = peer.endpoint
    /\ nav' = peer.nav
    /\ navRequest' = peer.navRequest
    /\ navResponse' = peer.navResponse
    /\ attempt' = peer.attempt
    /\ lastError' = peer.lastError
    /\ mainCookies' = peer.mainCookies
    /\ sessionCookies' = peer.sessionCookies
    /\ idx' = peer.idx
    /\ ist' = peer.ist
    /\ out' = peer.out
    /\ wire' = peer.wire
    /\ results' = peer.results
    /\ now' = peer.now
    /\ startTime' = peer.startTime
    /\ res' = peer.res
    /\ sent' = peer.sent
    /\ calls' = peer.calls
    /\ trace' = peer.trace

\* a request for two symbols with an upstream that answers every request
PeerScenario == [req |-> Post(Body(Pair, JStr(Quote))), env |-> Env(QuietNav, QuietData)]

\* the calls that meet the other invocation: one symbol on a network that
\* fails and stalls, four symbols in two windows, and the peer's own request
PairCalls ==
    {<<v, [req |-> Get(JStr(<<"RELIANCE">>), Undefined, Undefined),
           env |-> Env(LiveNav, LiveData)]>> : v \in {"batch", "single", "direct"}}
        \cup {<<"enhanced",
                [req |-> Post(Body(Names(MAX_CONCURRENT_ENHANCED + 1), JStr(Quote))),
                 env |-> Env(QuietNav, QuietData)]>>}
        \cup {<<v, PeerScenario>> : v \in BatchVariants}

\* a handler is called while an invocation of the handler with retrying
\* session is about to start
PairInit ==
    /\ \E c \in PairCalls : StartAs(Entry(c[1], c[2]))
    /\ peer = Entry("retry", PeerScenario)

PairNext == Next \/ Switch

PairSpec == PairInit /\ [][PairNext]_vars

----------------------------------------------------------------------------
(* Properties. *)

Range(s) == {s[j] : j \in DOMAIN s}
NoRepeats(s) == \A i, j \in DOMAIN s : i # j => s[i] # s[j]

\* a compiled batch response has been sent
Compiled == pc = "done" /\ res.body.kind = "batch"

\* entry k ended with a success outcome
Succeeded(k) ==
    ist[k] = "done" /\ out[k].settle = "resolved" /\ out[k].value.success

\* upstream data requests in flight: dispatched and neither settled nor aborted
InFlight ==
    Cardinality({k \in DOMAIN ist : ist[k] \in {"sent", "body"}}) + calls.orphans

\* the time at which windowing started
WindowingStart == trace[1].time

\* C1: for an accepted request with a non-empty symbol list without repeats,
\* the keys of `data` and the keys of `errors` of the compiled response
\* together are the requested symbols, and no symbol is a key of both.
C1_KeysCoverRequested ==
    (Compiled /\ symbols.t = "array" /\ N >= 1 /\ NoRepeats(symbols.v)) =>
        /\ (DOMAIN res.body.data) \cup (DOMAIN res.body.errors) = Range(symbols.v)
        /\ (DOMAIN res.body.data) \cap (DOMAIN res.body.errors) = {}

\* C2: in the handler with retrying session, once the session is established
\* the status of the response is 200 when every requested symbol succeeded,
\* 207 when some succeeded and some did not, 502 when none succeeded.
C2_StatusFromCounts ==
    (variant = "retry" /\ pc = "done" /\ nav = "done" /\ symbols.t = "array") =>
        LET ok == {k \in 1..N : Succeeded(k)}
        IN  /\ (ok = 1..N) => res.status = 200
            /\ (ok # {} /\ ok # 1..N) => res.status = 207
            /\ (ok = {}) => res.status = 502

\* the deadline a handler is held to: its MAX_PROCESSING_TIME, and for the
\* handler that declares none the largest one declared in the file
ClaimedDeadline(v) ==
    IF v = "retry" THEN MAX_PROCESSING_TIME_ENHANCED ELSE MaxProcessingTime(v)

\* C3: no window is dispatched at a boundary where more than the processing
\* deadline has passed since windowing started, and after a cut-off every
\* symbol from the cut-off on has a processing-timeout failure and was never
\* fetched.
C3_DeadlineRespected ==
    /\ \A j \in DOMAIN trace :
            trace[j].ev = "dispatch" =>
                trace[j].time - WindowingStart <= ClaimedDeadline(variant)
    /\ Compiled =>
            \A j \in DOMAIN trace :
                trace[j].ev = "cutoff" =>
                    \A k \in (trace[j].at + 1)..N :
                        /\ results[k].success = FALSE
                        /\ results[k].error = ProcessingTimeoutMessage(variant)
                        /\ wire[k].kind = "none"

\* C4: at every instant at most MAX_CONCURRENT upstream data requests are in
\* flight.
C4_InFlightBounded ==
    variant \in BatchVariants => InFlight <= MaxConcurrent(variant)

\* C5: getSessionCookies never starts more than MAX_ATTEMPTS attempts; when it
\* fails it has made exactly MAX_ATTEMPTS attempts and a session error is
\* sent; once an attempt has succeeded no further attempt and no further
\* navigation request is started.
C5_AttemptsExact ==
    /\ [](variant = "retry" =>
            /\ attempt <= MAX_ATTEMPTS
            /\ (nav = "failed" =>
                    /\ attempt = MAX_ATTEMPTS
                    /\ res.status = 503
                    /\ res.body.kind = "fatal")
            /\ (nav = "done" => attempt \in 1..MAX_ATTEMPTS))
    /\ [][(variant = "retry" /\ nav = "done") =>
            (attempt' = attempt /\ calls'.nav = calls.nav /\ nav' = "done")]_vars

\* C5 witness: the session failed after the third attempt
C5_Witness == variant = "retry" /\ nav = "failed" /\ attempt = MAX_ATTEMPTS

\* a string that supplies no symbol: commas and blanks only
OnlySeparators(x) ==
    x.t = "undefined" \/ (x.t = "string" /\ \A j \in DOMAIN x.v : x.v[j] \in {",", " "})

\* the request names no symbol at all
NoSymbolRequest(r) ==
    \/ /\ r.method = "GET"
       /\ r.query.symbol \in {Undefined, JStr(<<>>)}
       /\ OnlySeparators(r.query.symbols)
    \/ /\ r.method = "POST"
       /\ r.body.t = "object"
       /\ r.body.symbols \in {Undefined, JArr(<<>>)}

\* C6: a request with a missing or empty symbol set is answered with 400 and
\* a usage payload, and causes no navigation request and no data request.
C6_EmptySymbolsRejected ==
    (variant \in BatchVariants /\ NoSymbolRequest(req)) =>
        /\ calls.nav = 0
        /\ calls.data = 0
        /\ pc \in {"entry", "done"}
        /\ pc = "done" => (res.status = 400 /\ res.body.kind = "usage" /\ sent = 1)

\* C6 witness: a `symbols` value of separators only has been answered
C6_Witness ==
    /\ variant \in BatchVariants
    /\ req.method = "GET"
    /\ req.query.symbols = JStr(<<",", " ">>)
    /\ pc = "done"
    /\ res.status = 400

\* the endpoint value the caller sent
RequestedEndpoint(r) == IF r.method = "GET" THEN r.query.endpoint ELSE r.body.endpoint

\* C7: a request whose endpoint is not a configured kind is answered with 400
\* listing the configured kinds, and causes no upstream request.
C7_UnknownEndpointRejected ==
    (/\ variant \in BatchVariants
     /\ req.method \in {"GET", "POST"}
     /\ req.method = "POST" => req.body.t = "object"
     /\ RequestedEndpoint(req).t = "string"
     /\ RequestedEndpoint(req).v # <<>>
     /\ RequestedEndpoint(req).v \notin DOMAIN ENDPOINT_CONFIG) =>
        /\ calls.nav = 0
        /\ calls.data = 0
        /\ pc = "done" =>
                (res.status = 400 /\ res.body.kind = "usage"
                 /\ res.body.endpoints = ConfigKeys)

\* the upstream answered the request of entry k completely with this status
Answered(k, status) ==
    /\ wire[k].kind = "response"
    /\ wire[k].status = status
    /\ wire[k].body \in {"json", "html"}

NamesStatus(error, status) ==
    error \in {"HTTP Error: " \o ToString(status),
               "HTTP " \o ToString(status) \o ": " \o StatusText(status)}

\* C8: two distinct symbols, one answered 200 with a JSON body and the other
\* 401: the first is under `data` with its payload, the second under `errors`
\* with an error naming the 401, and the status is 207.
C8_MixedPair ==
    \A a, b \in DOMAIN ist :
        (/\ pc = "done"
         /\ symbols.t = "array"
         /\ N = 2
         /\ symbols.v[a] # symbols.v[b]
         /\ wire[a] = [kind |-> "response", status |-> 200, body |-> "json"]
         /\ Answered(b, 401)) =>
            /\ res.status = 207
            /\ res.body.kind = "batch"
            /\ symbols.v[a] \in DOMAIN res.body.data
            /\ res.body.data[symbols.v[a]] = out[a].value.data
            /\ symbols.v[b] \in DOMAIN res.body.errors
            /\ NamesStatus(res.body.errors[symbols.v[b]].error, 401)

\* C9: when the data request of every requested symbol ends in a timeout,
\* `errors` has an entry with the timeout message for every symbol, `data` is
\* empty, and the status is neither 200 nor 207.
C9_AllTimeouts ==
    (/\ pc = "done"
     /\ symbols.t = "array"
     /\ N >= 1
     /\ \A k \in DOMAIN wire : wire[k] = [kind |-> "fault", fault |-> "timeout"]) =>
        /\ res.body.kind = "batch"
        /\ DOMAIN res.body.data = {}
        /\ DOMAIN res.body.errors = Range(symbols.v)
        /\ \A x \in DOMAIN res.body.errors :
                res.body.errors[x].error = FaultMessage(variant, "timeout")
        /\ res.status \notin {200, 207}

\* C10: the promise of a single-item fetch never rejects: it resolves to an
\* outcome for its symbol with success true or false.
C10_FetcherNeverRejects ==
    \A k \in DOMAIN ist :
        (symbols.t = "array" /\ ist[k] = "done") =>
            /\ out[k].settle = "resolved"
            /\ out[k].value.symbol = symbols.v[k]
            /\ out[k].value.success \in BOOLEAN

\* session establishment ended with an error
SessionFailed == variant \in BatchVariants /\ nav \in {"failed", "degraded"}

CutOff == \E j \in DOMAIN trace : trace[j].ev = "cutoff"

\* C11: when session establishment has failed, the handler still answers with
\* a compiled batch result that has one outcome for every requested symbol,
\* and, unless the deadline cut the loop short, it has dispatched a data
\* fetch for every requested symbol.
C11_SessionFailureDegrades ==
    (SessionFailed /\ pc = "done") =>
        /\ Compiled
        /\ Len(results) = N
        /\ \A k \in 1..N : results[k].symbol = symbols.v[k]
        /\ CutOff \/ calls.data = N

\* C12: in the handler with retrying session, a failed session is answered
\* with 502 or 503 and an error payload, and no response with status 502 or
\* 503 is sent when the outcome list already holds a success.
C12_SessionErrorStatus ==
    (variant = "retry" /\ pc = "done") =>
        /\ nav = "failed" => (res.status \in {502, 503} /\ res.body.kind = "fatal")
        /\ res.status \in {502, 503} =>
                ~ \E k \in DOMAIN results : results[k].success

NoUpstreamRequest == calls.nav = 0 /\ calls.data = 0

\* the answer to a preflight request, and the answer to a refused method
PreflightAnswered ==
    /\ res.status \in {200, 204}
    /\ res.body.kind = "empty"
    /\ res.cors.origin = "*"
MethodRefused == res.status = 405 /\ res.body.kind = "error"

\* the methods a handler lets through its method test
Accepts(v, m) == m = "GET" \/ (m = "POST" /\ v \in BatchVariants)

\* C13 as stated: every handler, the single-symbol proxy included, lets GET
\* and POST through; OPTIONS gets 200/204 with CORS headers; any other
\* method gets 405; neither OPTIONS nor a refused method causes an upstream
\* request.
C13_GetAndPostAccepted ==
    /\ req.method \notin {"GET", "POST"} =>
            /\ NoUpstreamRequest
            /\ pc = "done" =>
                    IF req.method = "OPTIONS" THEN PreflightAnswered ELSE MethodRefused
    /\ (req.method \in {"GET", "POST"} /\ pc = "done") => ~MethodRefused

\* C13, amended: the batch handlers let GET and POST through, the
\* single-symbol proxies GET only; OPTIONS gets 200/204 with CORS headers and
\* an empty body; every other method gets 405; neither OPTIONS nor a refused
\* method causes an upstream request.
C13_Methods ==
    /\ ~Accepts(variant, req.method) =>
            /\ NoUpstreamRequest
            /\ pc \in {"entry", "done"}
            /\ pc = "done" =>
                    IF req.method = "OPTIONS" THEN PreflightAnswered ELSE MethodRefused
    /\ (Accepts(variant, req.method) /\ pc = "done") => ~MethodRefused

\* C13 witness: the single-symbol proxy has refused a POST
C13_Witness ==
    /\ variant = "single"
    /\ req.method = "POST"
    /\ pc = "done"
    /\ MethodRefused
    /\ NoUpstreamRequest

\* C14: a batch handler that was called with GET or POST never ends with an
\* exception nobody caught, and when it has ended it has sent one response
\* with a status code and a JSON body.
C14_AlwaysAnswers ==
    (variant \in BatchVariants /\ req.method \in {"GET", "POST"}) =>
        /\ pc # "crashed"
        /\ pc = "done" =>
                /\ sent = 1
                /\ res.status \in 200..599
                /\ res.body.kind \notin {"none", "empty"}

\* the batch loop is over
LoopFinished == pc = "compile" \/ Compiled

\* how many outcomes the list holds for x, and how many requested entries are x
OutcomesFor(x) == Cardinality({j \in DOMAIN results : results[j].symbol = x})
EntriesFor(x) == Cardinality({k \in 1..N : symbols.v[k] = x})

\* C15: when the batch loop is over the outcome list is as long as the list
\* of requested symbols and holds, for every symbol, as many outcomes as
\* there are requested entries of it: none missing, none recorded twice.
C15_OneOutcomeEach ==
    LoopFinished =>
        /\ Len(results) = N
        /\ \A x \in Range(symbols.v) \cup {results[j].symbol : j \in DOMAIN results} :
                OutcomesFor(x) = EntriesFor(x)

\* C15 witness: the loop ended by a deadline cut-off after a first window
C15_Witness ==
    /\ pc = "compile"
    /\ CutOff
    /\ \E j \in DOMAIN trace : trace[j].ev = "join"
    /\ Len(results) = N

DeadlineVariants == {"batch", "enhanced"}

\* C16: in the handlers with a deadline, a GET or POST request is answered
\* 200 exactly when a batch result was compiled in which at least one symbol
\* succeeded; a batch in which none succeeded gets another status.
C16_OkIffSomeSuccess ==
    (variant \in DeadlineVariants /\ req.method \in {"GET", "POST"} /\ pc = "done") =>
        (res.status = 200 <=>
            (Compiled /\ \E k \in DOMAIN results : results[k].success))

\* C16 witness: a partial success answered 200
C16_Witness ==
    /\ variant \in DeadlineVariants
    /\ Compiled
    /\ res.status = 200
    /\ \E k \in DOMAIN results : results[k].success
    /\ \E k \in DOMAIN results : ~results[k].success

\* the request carries no `symbol`
SymbolMissing(r) == r.query.symbol \in {Undefined, JStr(<<>>)}

\* C17: in the single-symbol proxy a GET without `symbol` is answered 400
\* with the usage hint whatever the endpoint kind, and neither the session
\* request nor the data request is sent; a GET with `symbol` and without
\* `endpoint` is served as endpoint `quote`.
C17_SymbolRequired ==
    (variant \in SingleVariants /\ req.method = "GET") =>
        /\ SymbolMissing(req) =>
                /\ NoUpstreamRequest
                /\ pc \in {"entry", "done"}
                /\ pc = "done" =>
                        /\ res.status = 400
                        /\ res.body.kind = "usage"
                        /\ res.body.error = "Symbol parameter is required"
        /\ (~SymbolMissing(req) /\ req.query.endpoint = Undefined /\ pc # "entry") =>
                /\ endpoint = JStr(Quote)
                /\ ~NoUpstreamRequest

\* C17 witness: no symbol, endpoint `indices`, answered 400
C17_Witness ==
    /\ variant = "single"
    /\ req.method = "GET"
    /\ req.query.symbol = Undefined
    /\ req.query.endpoint = JStr(<<"indices">>)
    /\ pc = "done"
    /\ res.status = 400
    /\ NoUpstreamRequest

\* the window an entry belongs to, counted from 0
WindowOf(k) == (k - 1) \div MaxConcurrent(variant)

Pending(k) == ist[k] \in {"wait", "sent", "body"}

\* C18: while a data fetch of some window is under way, every fetch of every
\* earlier window has resolved to an outcome; and the outcome list always
\* holds whole windows only.
C18_WindowBarrier ==
    variant \in BatchVariants =>
        /\ \A k, j \in DOMAIN ist :
                (Pending(k) /\ WindowOf(j) < WindowOf(k)) =>
                    /\ ist[j] = "done"
                    /\ out[j].settle = "resolved"
                    /\ out[j].value.success \in BOOLEAN
        /\ Len(results) = N \/ Len(results) % MaxConcurrent(variant) = 0

\* C18 witness: a fetch of the second window is under way after a first
\* window in which one fetch succeeded and one failed
C18_Witness ==
    /\ variant \in BatchVariants
    /\ \E k \in DOMAIN ist : Pending(k) /\ WindowOf(k) = 1
    /\ \E j \in DOMAIN results : results[j].success
    /\ \E j \in DOMAIN results : ~results[j].success

\* C19: every dispatch of a window but the first comes directly after an
\* inter-window wait; a wait happens only when a further window follows; and
\* the loop is never left for compiling directly after a wait.
C19_DelayBetweenWindows ==
    variant \in BatchVariants =>
        /\ \A j \in DOMAIN trace :
                (j > 1 /\ trace[j].ev = "dispatch") => trace[j - 1].ev = "delay"
        /\ \A j \in DOMAIN trace :
                trace[j].ev = "delay" => trace[j].at + MaxConcurrent(variant) < N
        /\ (pc = "compile" /\ trace # <<>>) => trace[Len(trace)].ev # "delay"

\* C20: the j-th outcome of the list is the outcome of the j-th requested
\* symbol: it names that symbol, and when the symbol's fetch has run it is
\* what that fetch resolved to.
C20_OutcomeOrder ==
    \A j \in DOMAIN results :
        /\ results[j].symbol = symbols.v[j]
        /\ ist[j] = "done" => results[j] = out[j].value

\* C20 witness: two windows were joined and in each of them a fetch settled
\* before one that was dispatched earlier
C20_Witness ==
    /\ pc = "compile"
    /\ Len(results) = N
    /\ \E a, b \in DOMAIN trace :
            /\ trace[a].ev = "overtake" /\ trace[b].ev = "overtake"
            /\ trace[a].at # trace[b].at

\* the dispatches the batch loop has made so far
Dispatches == {j \in DOMAIN trace : trace[j].ev = "dispatch"}

\* session establishment is over, with or without cookies
SessionOver == nav \in {"done", "degraded"}

\* C21: in a batch handler session establishment is entered once, from the
\* start of the handler; no data request is issued before it is over; after
\* it is over no navigation request is issued and the session cookie string
\* does not change; and every window's requests present that one string.
C21_OneSessionForAll ==
    /\ [](variant \in BatchVariants =>
            /\ calls.data > 0 => SessionOver
            /\ Dispatches # {} => SessionOver
            /\ \A j \in Dispatches :
                    trace[j].cookie \in
                        {JStr(sessionCookies)} \cup
                        (IF sessionCookies = <<>> THEN {Undefined} ELSE {}))
    /\ [][(variant \in BatchVariants) =>
            (/\ (pc' = "session" /\ pc # "session") => (pc = "entry" /\ calls.nav = 0)
             /\ SessionOver =>
                    (sessionCookies' = sessionCookies /\ calls'.nav = calls.nav
                     /\ nav' = nav))]_vars

\* C21 witness: getSessionCookies made both its navigation requests and two
\* windows were dispatched with the cookies it returned
C21_Witness ==
    /\ variant = "retry"
    /\ sessionCookies # <<>>
    /\ Cardinality(Dispatches) >= 2
    /\ calls.nav >= 2

\* the handlers whose session establishment has more than one navigation step
MultiStepVariants == {"retry", "enhanced"}

\* this step receives a navigation response that is not 2xx
NavRefused ==
    /\ navResponse'.request # navResponse.request
    /\ ~IsOk(navResponse'.status)

\* C22: when a navigation step is answered with a status that is not 2xx,
\* no later step of that attempt is requested; in getSessionCookies a new
\* attempt follows from the first step when attempts remain.
C22_RefusalAbortsAttempt ==
    [][(variant \in MultiStepVariants /\ NavRefused) =>
            (/\ nav' \notin {"pause", "pause2", "market", "quotes"}
             /\ (variant = "retry" /\ AttemptsLeft(attempt)) =>
                    (nav' = "backoff" /\ pc' = "session" /\ sent' = sent))]_vars

\* the message getSessionCookies throws (line 389) for a last error
SessionErrorMessage(last) ==
    "Failed to establish NSE session after " \o ToString(MAX_ATTEMPTS)
        \o " attempts. Last error: " \o last

\* the error of an attempt that ended with the response recorded in r
RefusalMessage(r) ==
    (IF r.step = "main" THEN "Main page fetch failed: "
     ELSE "Market data page fetch failed: ") \o ToString(r.status)

\* C23: in getSessionCookies the backoff wait is entered exactly when an
\* attempt fails and another attempt follows, and a new attempt starts only
\* out of that wait; when the last attempt fails no wait is entered, and the
\* error sent names the error of that last attempt.
C23_BackoffAndLastError ==
    [][(variant = "retry") =>
            (/\ (attempt' # attempt /\ attempt >= 1) =>
                    (nav = "backoff" /\ attempt' = attempt + 1 /\ nav' = "main")
             /\ (nav' = "backoff" /\ nav # "backoff") =>
                    (AttemptsLeft(attempt) /\ nav \in {"main", "market"})
             /\ (nav' = "failed" /\ nav # "failed") =>
                    (/\ ~AttemptsLeft(attempt)
                     /\ nav \in {"main", "market"}
                     /\ res'.body.message = SessionErrorMessage(lastError')
                     /\ IF NavRefused
                        THEN lastError' = RefusalMessage(navResponse')
                        ELSE lastError' \in {FaultMessage("retry", "neterr"),
                                             FaultMessage("retry", "timeout")})
             /\ (nav \in {"main", "market"} /\ nav' \notin {nav, "backoff", "failed"}) =>
                    (lastError' = lastError /\ navResponse'.request = calls.nav
                     /\ IsOk(navResponse'.status)))]_vars

\* C23 witness: the first two attempts failed at the home page, the third
\* failed at the market-data page with 403, and that error was sent
C23_Witness ==
    /\ variant = "retry"
    /\ nav = "failed"
    /\ attempt = MAX_ATTEMPTS
    /\ calls.nav = MAX_ATTEMPTS + 1
    /\ navResponse.request = calls.nav
    /\ navResponse.step = "market"
    /\ navResponse.status = 403
    /\ res.body.message = SessionErrorMessage("Market data page fetch failed: 403")

\* the name=value pairs a set-cookie header value sets
PairsSet(h) ==
    IF ~Truthy(h) THEN {}
    ELSE {Trim(Split(x, ";")[1]) : x \in Range(Split(h.v, ","))} \ {<<>>}

\* the tokens of piece occur in s, in a row
Occurs(piece, s) ==
    \E i \in 0..(Len(s) - Len(piece)) : SubSeq(s, i + 1, i + Len(piece)) = piece

\* the page requested after a page in one attempt
NextPage(step) == IF step = "main" THEN "market" ELSE "quotes"

\* this step sends a navigation request
NavRequested == calls'.nav = calls.nav + 1

Items(pieces) ==
    LET F[n \in 0..Len(pieces)] ==
            IF n = 0 THEN <<>>
            ELSE LET item == Trim(Split(pieces[n], ";")[1])
                 IN  IF Len(Split(item, "=")) > 1 /\ Split(item, "=")[1] # <<>>
                     THEN Append(F[n - 1], item)
                     ELSE F[n - 1]
    IN  F[Len(pieces)]

\* the name of an item, and its value: all that follows the first equals sign
ItemName(item) == Trim(Split(item, "=")[1])
ItemValue(item) == Join(Tail(Split(item, "=")), <<"=">>)

HeaderPieces(h) == IF Truthy(h) THEN Split(h.v, ",") ELSE <<>>

\* the handlers that merge the cookies they collect
MergingVariants == {"retry", "enhanced", "single"}

\* the session was established by answered requests up to the last step
Merged ==
    /\ variant \in MergingVariants
    /\ nav = "done"
    /\ variant = "enhanced" => navResponse.step = "quotes"

\* the items the navigation responses of the attempt have set, in the order
\* in which they were set
ItemsSet ==
    CASE variant = "retry" ->
            Items(Split(mainCookies, ",") \o HeaderPieces(navResponse.hdr))
      [] variant = "enhanced" ->
            Items(Split(navRequest.cookie.v, ";") \o
                  (IF navResponse.status = 200 THEN HeaderPieces(navResponse.hdr)
                   ELSE <<>>))
      [] OTHER -> Items(HeaderPieces(navResponse.hdr))

\* the items of the session cookie string
ItemsKept == Items(Split(sessionCookies, ";"))

\* C25: every cookie name the navigation responses have set has exactly one
\* item in the session cookie string, with the value that was set last for
\* that name, and the string has no item for any other name.
C25_LastWriteWins ==
    Merged =>
        /\ \A j \in DOMAIN ItemsSet :
                LET name == ItemName(ItemsSet[j])
                    last == CHOOSE k \in DOMAIN ItemsSet :
                                /\ ItemName(ItemsSet[k]) = name
                                /\ \A m \in DOMAIN ItemsSet :
                                        ItemName(ItemsSet[m]) = name => m <= k
                    kept == {k \in DOMAIN ItemsKept : ItemName(ItemsKept[k]) = name}
                IN  /\ Cardinality(kept) = 1
                    /\ \A k \in kept : ItemValue(ItemsKept[k]) = ItemValue(ItemsSet[last])
        /\ \A k \in DOMAIN ItemsKept :
                \E j \in DOMAIN ItemsSet : ItemName(ItemsSet[j]) = ItemName(ItemsKept[k])

\* the document the upstream serves for the request of entry k
Served(k) == [doc |-> TargetUrl(variant, symbols.v[k], endpoint)]

\* C26: a fetch whose request the upstream has dealt with resolves to one
\* outcome: success with the served document for a 2xx answer with a JSON
\* body; a failure naming the status for an answer that is not 2xx; a
\* failure with the underlying message for a network error, a timeout or a
\* body that breaks off; a failure for a 2xx answer that is not JSON.  A
\* success has no error and a failure has no data.
C26_OutcomeClasses ==
    \A k \in DOMAIN ist :
        (ist[k] = "done" /\ wire[k].kind \in {"response", "fault"}) =>
            /\ out[k].settle = "resolved"
            /\ LET o == out[k].value
                   w == wire[k]
               IN  /\ o.symbol = symbols.v[k]
                   /\ IF o.success
                      THEN o = Success(o.symbol, o.data) /\ o.data # Undefined
                      ELSE o = Failure(o.symbol, o.error, o.details)
                   /\ CASE w.kind = "fault" ->
                            ~o.success /\ o.error = FaultMessage(variant, w.fault)
                        [] w.kind = "response" /\ w.body = "reset" ->
                            ~o.success /\ o.error = "terminated"
                        [] w.kind = "response" /\ w.body # "reset" /\ ~IsOk(w.status) ->
                            ~o.success /\ NamesStatus(o.error, w.status)
                        [] w.kind = "response" /\ w.body = "json" /\ IsOk(w.status) ->
                            o.success /\ o.data = Served(k)
                        [] OTHER ->
                            ~o.success /\ ~NamesStatus(o.error, w.status)

\* C26 witness: of two fetches one was answered 200 with JSON and the other
\* 200 with a page that is not JSON
C26_Witness ==
    /\ variant = "retry"
    /\ N = 2
    /\ \A k \in 1..N : ist[k] = "done"
    /\ wire[1] = [kind |-> "response", status |-> 200, body |-> "json"]
    /\ wire[2] = [kind |-> "response", status |-> 200, body |-> "html"]
    /\ out[1].value.success
    /\ ~out[2].value.success

\* the advice the single-symbol proxies give for a 401 (nse-proxy.js lines
\* 97-99 and 340-342)
AccessHint == <<"NSE API requires session cookies.">>

\* the upstream answered the request of entry k with a status that is not 2xx
Refused(k) ==
    /\ ist[k] = "done"
    /\ wire[k].kind = "response"
    /\ wire[k].body \in {"json", "html"}
    /\ ~IsOk(wire[k].status)

\* C27: a failure for an upstream answer that is not 2xx carries the advice
\* about denied access exactly when the status is 401, in the outcomes of a
\* batch handler and in the error a single-symbol proxy relays.
C27_HintFor401 ==
    /\ \A k \in DOMAIN ist :
            (symbols.t = "array" /\ Refused(k)) =>
                /\ out[k].settle = "resolved"
                /\ ~out[k].value.success
                /\ (out[k].value.details = JStr(AccessHint)) <=> (wire[k].status = 401)
    /\ (pc = "done" /\ res.body.kind = "relayed") =>
            ((res.body.details = AccessHint) <=> (res.status = 401))

\* the entries whose data request goes out in this step
RequestsSent == {k \in DOMAIN ist : ist[k] \in {"idle", "wait"} /\ ist'[k] = "sent"}

\* C28: in a batch handler every data request that goes out is the request
\* of an entry that had none before, and an entry whose request went out
\* never goes back to waiting for one; so at no time have more data requests
\* gone out than symbols were requested.
C28_OneRequestPerEntry ==
    /\ [](variant \in BatchVariants => calls.data <= N)
    /\ [][(variant \in BatchVariants /\ pc # "entry") =>
            (/\ calls'.data = calls.data + Cardinality(RequestsSent)
             /\ \A k \in DOMAIN ist :
                    ist[k] \in {"sent", "body", "done"} =>
                        ist'[k] \in {"sent", "body", "done"}
             /\ \A k \in DOMAIN ist : ist[k] = "done" => ist'[k] = "done")]_vars

\* C28 witness: two symbols, the request of the first failed in the network,
\* and two data requests went out in all
C28_Witness ==
    /\ variant \in BatchVariants
    /\ pc = "done"
    /\ N = 2
    /\ wire[1] = [kind |-> "fault", fault |-> "neterr"]
    /\ ~out[1].value.success
    /\ calls.data = 2

\* the outcome at place j is a processing timeout
TimedOut(j) ==
    ~results[j].success /\ results[j].error = ProcessingTimeoutMessage(variant)

\* C29: in the handlers with a deadline, an outcome is a processing timeout
\* only for a symbol that was never dispatched and for which no data request
\* went out, after a cut-off at or before its place; the outcome of every
\* symbol that was dispatched is what its fetch resolved to, whenever its
\* window was joined; and the cut-off leaves the count of data requests as
\* it is.
C29_DeadlineAtBoundaries ==
    /\ [](variant \in DeadlineVariants =>
            \A j \in DOMAIN results :
                /\ TimedOut(j) =>
                        /\ ist[j] = "idle"
                        /\ wire[j].kind = "none"
                        /\ \E c \in DOMAIN trace :
                                trace[c].ev = "cutoff" /\ trace[c].at < j
                /\ ist[j] # "idle" =>
                        /\ ist[j] = "done"
                        /\ results[j] = out[j].value
                        /\ ~TimedOut(j))
    /\ [][(variant \in DeadlineVariants /\ ~CutOff /\ CutOff') =>
            (calls' = calls /\ ist' = ist /\ out' = out
             /\ SubSeq(results', 1, Len(results)) = results)]_vars

\* C29 witness: a window was joined after the deadline had passed, its
\* outcomes were kept, and the symbols after it were cut off
C29_Witness ==
    /\ variant \in DeadlineVariants
    /\ Compiled
    /\ CutOff
    /\ \E j \in DOMAIN trace :
            /\ trace[j].ev = "join"
            /\ trace[j].time - WindowingStart > MaxProcessingTime(variant)
    /\ results[1].success
    /\ TimedOut(N)

\* the error of fetchNseData's branch for an endpoint without configuration
InvalidEndpointError == "Invalid endpoint"

\* C30: in the handler with retrying session no fetch ends in the
\* invalid-endpoint failure and no compiled response has it among its
\* errors, whatever endpoint value the validation has let through; a
\* request the validation refuses gets the usage payload, without `data`
\* and `errors`, and no fetch.
C30_NoInputErrorInBatch ==
    variant = "retry" =>
        /\ \A k \in DOMAIN out :
                (ist[k] = "done" /\ out[k].settle = "resolved"
                 /\ ~out[k].value.success) =>
                    out[k].value.error # InvalidEndpointError
        /\ Compiled =>
                \A x \in DOMAIN res.body.errors :
                    res.body.errors[x].error # InvalidEndpointError
        /\ (pc = "done" /\ res.status = 400) =>
                (res.body.kind = "usage" /\ calls.data = 0 /\ DOMAIN ist = {})

\* C30 witness: the endpoint `constructor`, which is no configured kind, got
\* through the validation and both symbols were fetched
C30_Witness ==
    /\ variant = "retry"
    /\ Compiled
    /\ endpoint = JStr(<<"constructor">>)
    /\ N = 2
    /\ \A k \in 1..N : ist[k] = "done" /\ wire[k].kind = "response"

\* windowing has started: the handler is in or past its batch loop
Windowing == pc \in {"loop", "await", "delay", "compile"} \/ Dispatches # {}

\* C31: once the batch loop has started no step changes the session cookie
\* string: not a dispatch, not the completion of a fetch, not the wait
\* between windows, not the cut-off, not compiling, and no fetch that goes
\* on after the response.
C31_SessionReadOnly ==
    [][(variant \in BatchVariants /\ Windowing) =>
            (sessionCookies' = sessionCookies /\ mainCookies' = mainCookies)]_vars

\* C31 witness: after two windows with a wait between them and fetches that
\* completed, the handler compiles with the cookies it started with
C31_Witness ==
    /\ variant = "enhanced"
    /\ pc = "compile"
    /\ sessionCookies # <<>>
    /\ Cardinality(Dispatches) >= 2
    /\ \E j \in DOMAIN trace : trace[j].ev = "delay"
    /\ \A j \in Dispatches : trace[j].cookie = JStr(sessionCookies)

\* C32: no timer armed by a call of fetchWithTimeout that has settled is
\* still pending, whether the call ended with a response, with a network
\* error or with the timeout.
C32_TimersReleased ==
    variant \in BatchVariants => calls.timers = 0

SomePending == \E k \in DOMAIN ist : Pending(k)

\* C33: whenever a data fetch of the handler with the retrying session is
\* under way, a time comes at which none is: every fetch resolves, whether
\* the upstream answers, never answers, or sends headers and never the body.
C33_FetchesResolve ==
    (variant = "retry" /\ SomePending) ~> ~SomePending

\* the freshness lifetime, in seconds, a Cache-Control value grants a cache
\* (max-age, or s-maxage for a shared one); 0 when the header is absent
FreshFor(cache) ==
    CASE cache = "public, max-age=30" -> 30
      [] cache = "public, max-age=60" -> 60
      [] cache = "public, s-maxage=60, stale-while-revalidate=120" -> 60
      [] OTHER -> 0

\* a response that carries a compiled batch result or fetched data
CarriesData ==
    /\ pc = "done"
    /\ \/ res.body.kind = "batch" /\ res.status \in {200, 207, 502}
       \/ res.body.kind = "single" /\ res.status = 200

\* C34: every response that carries a compiled batch result (200, 207, 502)
\* or the single-symbol proxy's data (200) has a Cache-Control header whose
\* max-age or s-maxage is some tens of seconds.
C34_DataIsCacheable ==
    CarriesData => (res.cache # "none" /\ FreshFor(res.cache) \in 10..99)

C34_Witness ==
    /\ variant = "retry" /\ CarriesData /\ res.status = 207
    /\ res.cache = "public, s-maxage=60, stale-while-revalidate=120"

\* the deduplicated symbol set of the request
RequestedSet == {symbols.v[k] : k \in 1..N}

\* C35: a compiled batch answers the deduplicated symbol set: no more data
\* requests have gone out than there are distinct symbols, the two meta
\* counts add up to the number of distinct symbols, and no symbol is a key
\* of both `data` and `errors`.
C35_Deduplicated ==
    (variant \in BatchVariants /\ Compiled) =>
        /\ calls.data <= Cardinality(RequestedSet)
        /\ res.body.meta.successful + res.body.meta.failed = Cardinality(RequestedSet)
        /\ (DOMAIN res.body.data) \cap (DOMAIN res.body.errors) = {}

\* the entries of a comma-separated value: trimmed, the empty ones dropped
CommaList(x) == FilterNonEmpty(MapTrim(Split(x.v, ",")))

\* the symbols a GET request supplies: the entries of `symbols` if it names
\* any, otherwise `symbol` if it is not blank
SuppliedSymbols(r) ==
    IF r.query.symbols.t = "string" /\ CommaList(r.query.symbols) # <<>>
    THEN CommaList(r.query.symbols)
    ELSE IF r.query.symbol.t = "string" /\ Trim(r.query.symbol.v) # <<>>
    THEN <<r.query.symbol.v>>
    ELSE <<>>

\* a GET request whose parameters are single strings or absent, with a
\* configured endpoint kind or none
PlainGet(r) ==
    /\ r.method = "GET"
    /\ r.query.symbol.t \in {"undefined", "string"}
    /\ r.query.symbols.t \in {"undefined", "string"}
    /\ r.query.endpoint = Undefined \/ ConfigLookup(r.query.endpoint).t = "config"

\* the handler went on to session establishment
Accepted == calls.nav >= 1

\* C36: a GET request that supplies a non-empty symbol through `symbol` or
\* `symbols` is accepted; its symbol list is the comma-split of `symbols`,
\* trimmed, without empty entries and in order, or else the single `symbol`;
\* the endpoint is `quote` when none is given.
C36_GetParameters ==
    (variant \in BatchVariants /\ PlainGet(req) /\ pc # "entry") =>
        /\ SuppliedSymbols(req) # <<>> =>
                (Accepted /\ symbols = JArr(SuppliedSymbols(req)))
        /\ (Accepted /\ req.query.endpoint = Undefined) => endpoint = JStr(Quote)

\* C38: in every compiled batch response the counts of successes and of
\* failures in meta add up to the number of requested entries, and each is
\* the number of outcomes of its kind in the outcome list, a batch that was
\* cut off at the deadline included.
C38_CountsAddUp ==
    (variant \in BatchVariants /\ Compiled) =>
        /\ res.body.meta.successful + res.body.meta.failed = res.body.meta.requested
        /\ res.body.meta.requested = N
        /\ res.body.meta.successful =
                Cardinality({j \in DOMAIN results : results[j].success})
        /\ res.body.meta.failed =
                Cardinality({j \in DOMAIN results : ~results[j].success})

\* C38 witness: a batch of several windows was cut off after its first
\* window and compiled with successes and failures
C38_Witness ==
    /\ variant \in DeadlineVariants /\ Compiled /\ CutOff
    /\ res.body.meta.successful > 0
    /\ res.body.meta.failed > 0
    /\ res.body.meta.requested = WideCount

\* the upstream does not leave a body unfinished for ever
NoBodyPending == \A k \in DOMAIN ist : ist[k] # "body"

\* the invocation is over and has sent its one response
Finished == pc = "done" /\ sent = 1

\* C39: if no data request stays unsettled for ever, an invocation of a
\* batch handler comes to its end having sent one response; at no time have
\* two responses been sent; and once the response is sent no further data
\* request goes out.
C39_TerminatesOnce ==
    /\ (variant \in BatchVariants /\ []<>NoBodyPending) => <>Finished
    /\ [](variant \in BatchVariants => sent <= 1)
    /\ [][(variant \in BatchVariants /\ pc = "done") => (calls'.data = calls.data)]_vars

\* the response a batch handler v sends for PeerScenario when it runs alone:
\* both symbols fetched, in the order of the request
AloneResponse(v) ==
    [status |-> 200,
     body |-> Payload(Pair,
                      [k \in 1..2 |->
                          Success(Pair.v[k],
                                  [doc |-> TargetUrl(v, Pair.v[k], JStr(Quote))])]),
     cache |-> CacheControl(v),
     cors |-> CorsHeaders(v)]

\* invocation x was called in PeerScenario and has sent its response
AnsweredPeerScenario(x) ==
    /\ x.variant \in BatchVariants
    /\ x.req = PeerScenario.req
    /\ x.env = PeerScenario.env
    /\ x.pc = "done"

\* C37: of two invocations that overlap, every step is a step of one of them
\* that leaves the state of the other as it was (a change of turn leaves
\* both as they were); and under every interleaving an invocation answers
\* with the response it sends when it runs alone against the same upstream.
C37_NoSharedState ==
    /\ [][(peer' = peer) \/ (peer' = Me /\ Me' = peer)]_vars
    /\ [](\A x \in {Me, peer} : AnsweredPeerScenario(x) => x.res = AloneResponse(x.variant))

\* C37 witness: an invocation has answered while the other one, started
\* before that, is waiting for its data requests
C37_Witness ==
    /\ AnsweredPeerScenario(Me)
    /\ variant = "retry"
    /\ res = AloneResponse("retry")
    /\ peer.variant = "retry"
    /\ peer.pc = "await"
    /\ peer.calls.data = 2

====
